---- MODULE Spec2Model ----
(***************************************************************************)
(* Release-branch and merge orchestration of kobo-labs/releaser.            *)
(*                                                                         *)
(* The model covers core/repository.py (GitRepository), bump.py,           *)
(* release.py, core/version.py and the release action of cli.py.  The      *)
(* Git repository is a commit graph with local branches, remote-tracking   *)
(* branches, tags, HEAD, an index and a working tree.  Branch and tag      *)
(* names are sequences of one-character strings so that the regular        *)
(* expressions and string formatting of the code are computed, not         *)
(* assumed.                                                                *)
(***************************************************************************)
EXTENDS Integers, Sequences, FiniteSets, TLC

----------------------------------------------------------------------------
(* Bounds of the model *)

\* largest major version number the commit analysis may propose
MaxMajor == 1
\* number of commits the commit graph may hold
MaxCommits == 7

----------------------------------------------------------------------------
(* Characters and names *)

\* characters in code-point order, as Python compares strings
Alphabet ==
  << "-", ".", "/", "0", "1", "2", "3", "4", "5", "6", "7", "8", "9",
     "A", "D", "E", "H",
     "a", "b", "c", "d", "e", "f", "g", "h", "i", "j", "k", "l", "m",
     "n", "o", "p", "q", "r", "s", "t", "u", "v", "w", "x", "y", "z" >>

Ord(c) == CHOOSE i \in 1..Len(Alphabet) : Alphabet[i] = c

DigitChars == << "0", "1", "2", "3", "4", "5", "6", "7", "8", "9" >>

IsDigit(c) == \E i \in 1..10 : DigitChars[i] = c

DigitVal(c) == (CHOOSE i \in 1..10 : DigitChars[i] = c) - 1

\* str(n) for a natural number n
RECURSIVE ToDigits(_)
ToDigits(n) ==
  IF n < 10 THEN << DigitChars[n + 1] >>
  ELSE ToDigits(n \div 10) \o << DigitChars[(n % 10) + 1] >>

\* int(s) for a string of digits s
RECURSIVE ToInt(_)
ToInt(s) ==
  IF s = << >> THEN 0
  ELSE 10 * ToInt(SubSeq(s, 1, Len(s) - 1)) + DigitVal(s[Len(s)])

\* s < t in Python's string order
RECURSIVE StrLess(_, _)
StrLess(s, t) ==
  IF t = << >> THEN FALSE
  ELSE IF s = << >> THEN TRUE
  ELSE IF s[1] # t[1] THEN Ord(s[1]) < Ord(t[1])
  ELSE StrLess(Tail(s), Tail(t))

N_HEAD == << "H", "E", "A", "D" >>
N_main == << "m", "a", "i", "n" >>
N_master == << "m", "a", "s", "t", "e", "r" >>
N_dev == << "d", "e", "v" >>

\* uuid.uuid4() of bump.py: a name no branch of the repository has
TempName == << "t", "m", "p" >>

\* str(commit): the hexadecimal object id of a commit, never a branch name
Sha(c) == << "#" >> \o ToDigits(c)

IsSha(s) == Len(s) >= 2 /\ s[1] = "#" /\ \A i \in 2..Len(s) : IsDigit(s[i])

----------------------------------------------------------------------------
(* core/version.py *)

\* Version(base_version): major.minor.patch
Version(major, minor, patch) == [major |-> major, minor |-> minor, patch |-> patch]

\* a release branch named after the minor number
get_release_branch_minor(v) == << "v" >> \o ToDigits(v.minor)

\* Version.get_release_branch: f"v{major}"
get_release_branch(v) == << "v" >> \o ToDigits(v.major)

\* Version.get_release_tag: f"v{base_version}"
get_release_tag(v) ==
  << "v" >> \o ToDigits(v.major) \o << "." >> \o ToDigits(v.minor)
            \o << "." >> \o ToDigits(v.patch)

----------------------------------------------------------------------------
(* Sequences and sorting *)

RECURSIVE SetToSortedSeq(_)
\* the names of a set in ascending string order (the order in which
\* GitPython lists references)
SetToSortedSeq(S) ==
  IF S = {} THEN << >>
  ELSE LET m == CHOOSE x \in S : \A y \in S \ {x} : StrLess(x, y)
       IN  << m >> \o SetToSortedSeq(S \ {m})

Range(s) == { s[i] : i \in 1..Len(s) }

\* index of the first digit of s at or after i, 0 when there is none
RECURSIVE FirstDigitFrom(_, _)
FirstDigitFrom(s, i) ==
  IF i > Len(s) THEN 0
  ELSE IF IsDigit(s[i]) THEN i
  ELSE FirstDigitFrom(s, i + 1)

\* index of the last digit of the run of digits that starts at i
RECURSIVE DigitRunEnd(_, _)
DigitRunEnd(s, i) ==
  IF i < Len(s) /\ IsDigit(s[i + 1]) THEN DigitRunEnd(s, i + 1) ELSE i

\* extract_number of find_release_branches: re.search(r"\d+", branch)
extract_number(branch) ==
  LET i == FirstDigitFrom(branch, 1)
  IN  IF i = 0 THEN -1 ELSE ToInt(SubSeq(branch, i, DigitRunEnd(branch, i)))

\* pattern.match(branch.name) with pattern origin/v\d+ and branch.name =
\* "origin/" + name: re.match anchors the pattern at the start only
release_pattern_match(name) ==
  Len(name) >= 2 /\ name[1] = "v" /\ IsDigit(name[2])

\* insert x into a list sorted by descending key, after the elements whose
\* key is not smaller (the sort is stable)
RECURSIVE InsertDesc(_, _)
InsertDesc(sorted, x) ==
  IF sorted = << >> THEN << x >>
  ELSE IF extract_number(Head(sorted)) >= extract_number(x)
       THEN << Head(sorted) >> \o InsertDesc(Tail(sorted), x)
       ELSE << x >> \o sorted

\* sorted(release_branches, reverse=True): by name, not by number
RECURSIVE sorted_by_name(_)
sorted_by_name(list) ==
  IF list = << >> THEN << >>
  ELSE LET m == CHOOSE i \in 1..Len(list) :
                  \A j \in 1..Len(list) : ~StrLess(list[i], list[j])
       IN  << list[m] >> \o sorted_by_name(SubSeq(list, 1, m - 1)
                                            \o SubSeq(list, m + 1, Len(list)))

\* sorted(release_branches, key=extract_number, reverse=True)
RECURSIVE sorted_desc(_)
sorted_desc(list) ==
  IF list = << >> THEN << >>
  ELSE InsertDesc(sorted_desc(SubSeq(list, 1, Len(list) - 1)), list[Len(list)])

\* the list comprehension of find_release_branches over the remote refs
RECURSIVE FilterRelease(_)
FilterRelease(list) ==
  IF list = << >> THEN << >>
  ELSE IF release_pattern_match(Head(list))
       THEN << Head(list) >> \o FilterRelease(Tail(list))
       ELSE FilterRelease(Tail(list))

\* GitRepository._get_remote_refs: the names of the remote-tracking branches
get_remote_refs(r) == SetToSortedSeq(DOMAIN r.refs)

\* GitRepository.find_release_branches
find_release_branches(r) == sorted_desc(FilterRelease(get_remote_refs(r)))

----------------------------------------------------------------------------
(* Files, trees and commits *)

\* the files of the repository: the changelog and one source file
Paths == { "CHANGELOG.md", "README.md" }

\* a file that does not exist
Absent == [ex |-> FALSE, text |-> << >>]

\* a file with the given lines
File(text) == [ex |-> TRUE, text |-> text]

EmptyTree == [p \in Paths |-> Absent]

\* commit messages
Msg(kind, a, b) == [kind |-> kind, a |-> a, b |-> b]

\* a commit object: its parents in order, its tree and its message
Commit(parents, tree, msg) == [parents |-> parents, tree |-> tree, msg |-> msg]

\* the commits reachable from commit c of the graph g, c included
RECURSIVE Ancestors(_, _)
Ancestors(g, c) ==
  {c} \cup UNION { Ancestors(g, g[c].parents[i]) : i \in 1..Len(g[c].parents) }

IsAncestor(g, a, c) == a \in Ancestors(g, c)

\* repo.merge_base(a, b): the best common ancestors of two commits
merge_base(g, a, b) ==
  LET common == Ancestors(g, a) \cap Ancestors(g, b)
  IN  { c \in common : \A d \in common \ {c} : ~IsAncestor(g, c, d) }

\* the commits on the first-parent line of c, c included
RECURSIVE FirstParentLine(_, _)
FirstParentLine(g, c) ==
  IF g[c].parents = << >> THEN {c}
  ELSE {c} \cup FirstParentLine(g, g[c].parents[1])

\* git read-tree -m H M on one path with index entry I (two-tree merge):
\* the entry is kept when the trees agree or the index already has M's
\* entry, replaced by M's entry when the index has H's entry
MergeEntryConflict(I, H, M) == H # M /\ I # H /\ I # M

MergeEntry(I, H, M) == IF H # M /\ I = H THEN M ELSE I

----------------------------------------------------------------------------
(* The repository: state of the clone that GitRepository wraps              *)
(*   commits   the commit graph, a sequence indexed by commit id            *)
(*   heads     local branches (repo.heads / repo.branches): name -> commit  *)
(*   tracking  local branches that track their remote branch                *)
(*   refs      remote branches (repo.remote().refs): name -> commit         *)
(*   tags      local tags: name -> commit;  rtags: tags on the remote       *)
(*   head      HEAD: attached to a local branch or detached at a commit     *)
(*   index     the staged tree;  wt: the files of the working tree          *)
(*   default_branch   GitRepository.default_branch                          *)
(*   err       "" or the error raised by the operation in progress          *)
(***************************************************************************)

Attached(name) == [att |-> TRUE, name |-> name, c |-> 0]

Detached(c) == [att |-> FALSE, name |-> << >>, c |-> c]

\* the commit HEAD points at
HeadCommit(r) == IF r.head.att THEN r.heads[r.head.name] ELSE r.head.c

Raise(r, e) == [r EXCEPT !.err = e]

Failed(r) == r.err # ""

\* f with x mapped to v
Put(f, x, v) == [y \in DOMAIN f \cup {x} |-> IF y = x THEN v ELSE f[y]]

\* f without x
Drop(f, x) == [y \in DOMAIN f \ {x} |-> f[y]]

\* references, as GitPython's classes: git.Head, git.RemoteReference, None
LocalRef(name) == [kind |-> "local", name |-> name]

RemoteRef(name) == [kind |-> "remote", name |-> name]

NoRef == [kind |-> "none", name |-> << >>]

\* repo.head.reference raises TypeError when HEAD is detached
RaisedRef == [kind |-> "raise", name |-> << >>]

\* reference.commit
RefCommit(r, ref) ==
  IF ref.kind = "local" THEN r.heads[ref.name] ELSE r.refs[ref.name]

\* find_reference that looks at the remote-tracking branches first
find_reference_remote_first(r, branch) ==
  IF branch = N_HEAD
  THEN IF r.head.att THEN LocalRef(r.head.name) ELSE RaisedRef
  ELSE IF branch \in DOMAIN r.refs THEN RemoteRef(branch)
  ELSE IF branch \in DOMAIN r.heads THEN LocalRef(branch)
  ELSE NoRef

\* GitRepository.find_reference
find_reference(r, branch) ==
  IF branch = N_HEAD
  THEN IF r.head.att THEN LocalRef(r.head.name) ELSE RaisedRef
  ELSE IF branch \in DOMAIN r.heads THEN LocalRef(branch)
  ELSE IF branch \in DOMAIN r.refs THEN RemoteRef(branch)
  ELSE NoRef

\* the files of the working tree that are not in the index
Untracked(r) == { p \in Paths : r.wt[p].ex /\ ~r.index[p].ex }

\* the files whose working tree content differs from the index
Modified(r) == { p \in Paths : r.index[p].ex /\ r.wt[p] # r.index[p] }

\* git checkout refuses to switch when a file that differs between the two
\* commits has local changes or is an untracked file in the way
CheckoutRefused(r, c) ==
  LET from == r.commits[HeadCommit(r)].tree
      to   == r.commits[c].tree
  IN  \E p \in Paths : /\ from[p] # to[p]
                       /\ r.wt[p].ex
                       /\ (r.wt[p] # r.index[p] \/ r.index[p] # from[p])

\* head.checkout() for a git.Head or a git.RemoteReference
ref_checkout(r, ref) ==
  IF CheckoutRefused(r, RefCommit(r, ref))
  THEN Raise(r, "GitCommandError: checkout")
  ELSE LET to == r.commits[RefCommit(r, ref)].tree
           from == r.commits[HeadCommit(r)].tree
       IN  [r EXCEPT
             !.head = IF ref.kind = "local" THEN Attached(ref.name)
                      ELSE Detached(RefCommit(r, ref)),
             !.index = [p \in Paths |-> IF from[p] # to[p] THEN to[p] ELSE @[p]],
             !.wt = [p \in Paths |-> IF from[p] # to[p] THEN to[p] ELSE @[p]]]

\* repo.head.reset(index=True, working_tree=True); repo.git.clean("-fd")
reset_and_clean(r) ==
  LET t == r.commits[HeadCommit(r)].tree
  IN  [r EXCEPT !.index = t, !.wt = t]

\* _checkout_clean without the reset and the clean
checkout_without_clean(r, ref) == ref_checkout(r, ref)

\* GitRepository._checkout_clean(head) for a reference
checkout_clean(r, ref) ==
  LET r1 == ref_checkout(r, ref)
  IN  IF Failed(r1) THEN r1 ELSE reset_and_clean(r1)

\* the commit a literal commit-ish names: an object id or a tag; 0 if none
ResolveCommitish(r, s) ==
  IF IsSha(s) /\ ToInt(Tail(s)) \in 1..Len(r.commits) THEN ToInt(Tail(s))
  ELSE IF s \in DOMAIN r.tags THEN r.tags[s]
  ELSE 0

\* repo.create_head(name, commit): a new local branch at that commit
create_head(r, name, c) ==
  IF name \in DOMAIN r.heads THEN Raise(r, "GitCommandError: branch exists")
  ELSE IF c = 0 THEN Raise(r, "GitCommandError: not a valid object name")
  ELSE [r EXCEPT !.heads = Put(@, name, c)]

\* checkout that creates a branch it finds only on the remote from on_branch
checkout_remote_as_new(r, branch, on_branch) ==
  LET head_ref == find_reference(r, branch)
  IN  IF head_ref.kind = "raise" THEN Raise(r, "TypeError: HEAD is detached")
      ELSE IF head_ref.kind = "local"
      THEN checkout_clean(r, head_ref)
      ELSE LET on_reference == find_reference(r, on_branch)
               r1 == IF on_reference.kind \in {"local", "remote"}
                     THEN create_head(r, branch, RefCommit(r, on_reference))
                     ELSE create_head(r, branch, ResolveCommitish(r, on_branch))
           IN  IF on_reference.kind = "raise"
               THEN Raise(r, "TypeError: HEAD is detached")
               ELSE IF Failed(r1) THEN r1
               ELSE checkout_clean(r1, LocalRef(branch))

\* checkout that creates an absent branch at HEAD, whatever on_branch is
checkout_new_at_head(r, branch, on_branch) ==
  LET head_ref == find_reference(r, branch)
  IN  IF head_ref.kind = "raise" THEN Raise(r, "TypeError: HEAD is detached")
      ELSE IF head_ref.kind = "remote"
      THEN LET r1 == create_head(r, branch, r.refs[branch])
               r2 == [r1 EXCEPT !.tracking = @ \cup {branch}]
           IN  IF Failed(r1) THEN r1 ELSE checkout_clean(r2, LocalRef(branch))
      ELSE IF head_ref.kind = "local"
      THEN checkout_clean(r, head_ref)
      ELSE LET r1 == create_head(r, branch, HeadCommit(r))
           IN  IF Failed(r1) THEN r1
               ELSE checkout_clean(r1, LocalRef(branch))

\* checkout that resets an existing local branch to on_branch
checkout_reset_branch(r, branch, on_branch) ==
  LET head_ref == find_reference(r, branch)
  IN  IF head_ref.kind = "raise" THEN Raise(r, "TypeError: HEAD is detached")
      ELSE IF head_ref.kind = "remote"
      THEN LET r1 == create_head(r, branch, r.refs[branch])
               r2 == [r1 EXCEPT !.tracking = @ \cup {branch}]
           IN  IF Failed(r1) THEN r1 ELSE checkout_clean(r2, LocalRef(branch))
      ELSE LET on_reference == find_reference(r, on_branch)
               c == IF on_reference.kind \in {"local", "remote"}
                    THEN RefCommit(r, on_reference)
                    ELSE ResolveCommitish(r, on_branch)
               r1 == IF c = 0 THEN Raise(r, "GitCommandError: not a valid object name")
                     ELSE [r EXCEPT !.heads = Put(@, branch, c)]
           IN  IF on_reference.kind = "raise"
               THEN Raise(r, "TypeError: HEAD is detached")
               ELSE IF Failed(r1) THEN r1
               ELSE checkout_clean(r1, LocalRef(branch))

\* GitRepository.checkout(branch, on_branch)
checkout(r, branch, on_branch) ==
  LET head_ref == find_reference(r, branch)
  IN  IF head_ref.kind = "raise" THEN Raise(r, "TypeError: HEAD is detached")
      ELSE IF head_ref.kind = "remote"
      THEN LET r1 == create_head(r, branch, r.refs[branch])
               r2 == [r1 EXCEPT !.tracking = @ \cup {branch}]
           IN  IF Failed(r1) THEN r1 ELSE checkout_clean(r2, LocalRef(branch))
      ELSE IF head_ref.kind = "local"
      THEN checkout_clean(r, head_ref)
      ELSE LET on_reference == find_reference(r, on_branch)
               r1 == IF on_reference.kind \in {"local", "remote"}
                     THEN create_head(r, branch, RefCommit(r, on_reference))
                     ELSE create_head(r, branch, ResolveCommitish(r, on_branch))
           IN  IF on_reference.kind = "raise"
               THEN Raise(r, "TypeError: HEAD is detached")
               ELSE IF Failed(r1) THEN r1
               ELSE checkout_clean(r1, LocalRef(branch))

\* repo.index.commit(message, parent_commits): a new commit of the index;
\* HEAD, or the branch it is attached to, moves to the new commit
index_commit(r, message, parents) ==
  LET c == Len(r.commits) + 1
      r1 == [r EXCEPT !.commits = Append(@, Commit(parents, r.index, message))]
  IN  IF r.head.att THEN [r1 EXCEPT !.heads = Put(@, r.head.name, c)]
      ELSE [r1 EXCEPT !.head = Detached(c)]

\* merge_tree that takes the source's entry wherever source and base differ
merge_tree_theirs(r, source_commit, bases) ==
  LET M == r.commits[source_commit].tree
      H == IF bases = {} THEN r.index
           ELSE r.commits[CHOOSE b \in bases : TRUE].tree
  IN  IF Cardinality(bases) > 1
      THEN Raise(r, "GitCommandError: read-tree")
      ELSE [r EXCEPT !.index = [p \in Paths |-> IF H[p] # M[p] THEN M[p] ELSE @[p]]]

\* repo.index.merge_tree(source, base=merge_base): git read-tree -m of the
\* merge bases and the source into the index
merge_tree(r, source_commit, bases) ==
  LET M == r.commits[source_commit].tree
      H == IF bases = {} THEN r.index
           ELSE r.commits[CHOOSE b \in bases : TRUE].tree
  IN  IF Cardinality(bases) > 1
      THEN Raise(r, "GitCommandError: read-tree")
      ELSE IF \E p \in Paths : MergeEntryConflict(r.index[p], H[p], M[p])
      THEN Raise(r, "GitCommandError: read-tree")
      ELSE [r EXCEPT !.index = [p \in Paths |-> MergeEntry(@[p], H[p], M[p])]]

\* the default message of GitRepository.merge
MergeMessage(source_branch, target_branch) ==
  Msg("Merge", source_branch, target_branch)

\* merge that looks for the target before the source
merge_target_first(r, source_branch, target_branch) ==
  LET source_reference == find_reference(r, source_branch)
      target_reference == find_reference(r, target_branch)
  IN  IF target_reference.kind = "raise"
      THEN Raise(r, "TypeError: HEAD is detached")
      ELSE IF target_reference.kind = "none"
      THEN Raise(r, "Could not find target branch head.")
      ELSE IF source_reference.kind = "raise"
      THEN Raise(r, "TypeError: HEAD is detached")
      ELSE IF source_reference.kind = "none"
      THEN Raise(r, "Could not find source branch head.")
      ELSE
        LET source_commit == RefCommit(r, source_reference)
            target_commit == RefCommit(r, target_reference)
            r1 == checkout_clean(r, target_reference)
            r2 == merge_tree(r1, source_commit,
                             merge_base(r.commits, source_commit, target_commit))
            r3 == index_commit(r2, MergeMessage(source_branch, target_branch),
                               << target_commit, source_commit >>)
        IN  IF Failed(r1) THEN r1
            ELSE IF Failed(r2) THEN r2
            ELSE reset_and_clean(r3)

\* merge without the final _checkout_clean(self.repo.head)
merge_without_cleanup(r, source_branch, target_branch) ==
  LET source_reference == find_reference(r, source_branch)
      target_reference == find_reference(r, target_branch)
  IN  IF source_reference.kind = "raise"
      THEN Raise(r, "TypeError: HEAD is detached")
      ELSE IF source_reference.kind = "none"
      THEN Raise(r, "Could not find source branch head.")
      ELSE IF target_reference.kind = "raise"
      THEN Raise(r, "TypeError: HEAD is detached")
      ELSE IF target_reference.kind = "none"
      THEN Raise(r, "Could not find target branch head.")
      ELSE
        LET source_commit == RefCommit(r, source_reference)
            target_commit == RefCommit(r, target_reference)
            r1 == checkout_clean(r, target_reference)
            r2 == merge_tree(r1, source_commit,
                             merge_base(r.commits, source_commit, target_commit))
            r3 == index_commit(r2, MergeMessage(source_branch, target_branch),
                               << target_commit, source_commit >>)
        IN  IF Failed(r1) THEN r1
            ELSE IF Failed(r2) THEN r2
            ELSE r3

\* merge that checks the target out before it looks for the source
merge_checkout_before_source(r, source_branch, target_branch) ==
  LET source_reference == find_reference(r, source_branch)
      target_reference == find_reference(r, target_branch)
  IN  IF target_reference.kind = "raise"
      THEN Raise(r, "TypeError: HEAD is detached")
      ELSE IF target_reference.kind = "none"
      THEN Raise(r, "Could not find target branch head.")
      ELSE
        LET source_commit == RefCommit(r, source_reference)
            target_commit == RefCommit(r, target_reference)
            r1 == checkout_clean(r, target_reference)
            r2 == merge_tree(r1, source_commit,
                             merge_base(r.commits, source_commit, target_commit))
            r3 == index_commit(r2, MergeMessage(source_branch, target_branch),
                               << target_commit, source_commit >>)
        IN  IF Failed(r1) THEN r1
            ELSE IF source_reference.kind = "raise"
            THEN Raise(r1, "TypeError: HEAD is detached")
            ELSE IF source_reference.kind = "none"
            THEN Raise(r1, "Could not find source branch head.")
            ELSE IF Failed(r2) THEN r2
            ELSE reset_and_clean(r3)

\* GitRepository.merge(source_branch, target_branch)
merge(r, source_branch, target_branch) ==
  LET source_reference == find_reference(r, source_branch)
      target_reference == find_reference(r, target_branch)
  IN  IF source_reference.kind = "raise"
      THEN Raise(r, "TypeError: HEAD is detached")
      ELSE IF source_reference.kind = "none"
      THEN Raise(r, "Could not find source branch head.")
      ELSE IF target_reference.kind = "raise"
      THEN Raise(r, "TypeError: HEAD is detached")
      ELSE IF target_reference.kind = "none"
      THEN Raise(r, "Could not find target branch head.")
      ELSE
        LET source_commit == RefCommit(r, source_reference)
            target_commit == RefCommit(r, target_reference)
            r1 == checkout_clean(r, target_reference)
            r2 == merge_tree(r1, source_commit,
                             merge_base(r.commits, source_commit, target_commit))
            r3 == index_commit(r2, MergeMessage(source_branch, target_branch),
                               << target_commit, source_commit >>)
        IN  IF Failed(r1) THEN r1
            ELSE IF Failed(r2) THEN r2
            ELSE reset_and_clean(r3)

\* GitRepository.commit(files, message): stage the files and commit
commit(r, files, message) ==
  IF \E p \in files : ~r.wt[p].ex
  THEN Raise(r, "FileNotFoundError")
  ELSE index_commit([r EXCEPT !.index = [p \in Paths |->
                                IF p \in files THEN r.wt[p] ELSE @[p]]],
                    message, << HeadCommit(r) >>)

\* GitRepository.tag(tag, message, commit): a new annotated tag
tag(r, name, c) ==
  IF name \in DOMAIN r.tags THEN Raise(r, "GitCommandError: tag exists")
  ELSE [r EXCEPT !.tags = Put(@, name, c)]

\* what git push does with one name: a local branch is pushed when the
\* remote branch is absent or an ancestor of it, a tag when the remote has
\* no such tag or the same; a rejected reference is only reported in the
\* result list, which release does not read
push_one(r, name) ==
  IF name \in DOMAIN r.heads
  THEN IF name \notin DOMAIN r.refs
          \/ IsAncestor(r.commits, r.refs[name], r.heads[name])
       THEN [r EXCEPT !.refs = Put(@, name, r.heads[name])]
       ELSE r
  ELSE IF name \in DOMAIN r.tags
  THEN IF name \notin DOMAIN r.rtags THEN [r EXCEPT !.rtags = Put(@, name, r.tags[name])]
       ELSE r
  ELSE r

\* push that does not pass dry_run on
push_always(r, ref_names, dry_run) ==
  IF \E i \in 1..Len(ref_names) :
        ref_names[i] \notin DOMAIN r.heads \cup DOMAIN r.tags
  THEN Raise(r, "GitCommandError: src refspec does not match any")
  ELSE push_one(push_one(r, ref_names[1]), ref_names[2])

\* GitRepository.push(ref_names, dry_run) for the two names release pushes
push(r, ref_names, dry_run) ==
  IF \E i \in 1..Len(ref_names) :
        ref_names[i] \notin DOMAIN r.heads \cup DOMAIN r.tags
  THEN Raise(r, "GitCommandError: src refspec does not match any")
  ELSE IF dry_run THEN r
  ELSE push_one(push_one(r, ref_names[1]), ref_names[2])

\* delete that does not check out the default branch first
delete_without_checkout(r, branch) ==
  IF branch \notin DOMAIN r.heads THEN r
  ELSE IF find_reference(r, r.default_branch).kind = "none" THEN r
  ELSE IF r.head.att /\ r.head.name = branch
  THEN Raise(r, "GitCommandError: branch is checked out")
  ELSE [r EXCEPT !.heads = Drop(@, branch), !.tracking = @ \ {branch}]

\* GitRepository.delete(branch)
delete(r, branch) ==
  IF branch \notin DOMAIN r.heads THEN r
  ELSE LET default_branch == find_reference(r, r.default_branch)
           r1 == checkout_clean(r, default_branch)
       IN  IF default_branch.kind = "none" THEN r
           ELSE IF Failed(r1) THEN r1
           ELSE IF r1.head.att /\ r1.head.name = branch
           THEN Raise(r1, "GitCommandError: branch is checked out")
           ELSE [r1 EXCEPT !.heads = Drop(@, branch),
                           !.tracking = @ \ {branch}]

\* the parentless commits reachable from c, newest first
Roots(g, c) == { a \in Ancestors(g, c) : g[a].parents = << >> }

\* GitRepository.find_first_commit: 0 when the remote default branch is gone
find_first_commit(r) ==
  IF r.default_branch \notin DOMAIN r.refs THEN 0
  ELSE LET roots == Roots(r.commits, r.refs[r.default_branch])
       IN  CHOOSE a \in roots : \A b \in roots : b <= a

\* the choice of the default branch with master looked for first
DefaultBranchOf_master_first(r) ==
  IF N_master \in DOMAIN r.refs THEN N_master
  ELSE IF N_main \in DOMAIN r.refs THEN N_main
  ELSE << >>

\* GitRepository.__init__: the default branch is chosen among the remote's
DefaultBranchOf(r) ==
  IF N_main \in DOMAIN r.refs THEN N_main
  ELSE IF N_master \in DOMAIN r.refs THEN N_master
  ELSE << >>

open_repository(r) ==
  IF DefaultBranchOf(r) = << >>
  THEN Raise(r, "Default branch not found.")
  ELSE [r EXCEPT !.default_branch = DefaultBranchOf(r)]

----------------------------------------------------------------------------
(* bump.py *)

\* The commit analysis (commits.bump and commits.get_changelog, which run
\* commitizen in the working directory) is an external collaborator: its
\* outcome an is a version with its changelog text, the NoneIncrementExit
\* signal, or another exception.
AnVersion(v, changelog) == [kind |-> "version", version |-> v, changelog |-> changelog]

AnNone == [kind |-> "none", version |-> Version(0, 0, 0), changelog |-> << >>]

AnRaise == [kind |-> "raise", version |-> Version(0, 0, 0), changelog |-> << >>]

\* the preview merged into the highest release branch itself
bump_preview_in_place(r, source) ==
  LET release_branches == find_release_branches(r)
      r1 == checkout(r, release_branches[1], N_HEAD)
  IN  IF release_branches = << >> THEN r
      ELSE IF Failed(r1) THEN r1
      ELSE merge(r1, source, release_branches[1])

\* the try block of bump up to the analysis: the preview merge
bump_preview(r, source) ==
  LET release_branches == find_release_branches(r)
      r1 == checkout(r, TempName, release_branches[1])
  IN  IF release_branches = << >> THEN r
      ELSE IF Failed(r1) THEN r1
      ELSE merge(r1, source, TempName)

\* bump without its finally block: the temporary branch is deleted only
\* when the try block completed
bump_repo_cleanup_on_success(r, source, an) ==
  LET r1 == bump_preview(r, source)
  IN  IF Failed(r1) THEN r1
      ELSE IF an.kind = "raise" THEN Raise(r1, "Exception: analysis")
      ELSE delete(r1, TempName)

\* bump without its except NoneIncrementExit clause
bump_repo_none_uncaught(r, source, an) ==
  LET r1 == bump_preview(r, source)
      pending == IF Failed(r1) THEN r1.err
                 ELSE IF an.kind = "raise" THEN "Exception: analysis"
                 ELSE IF an.kind = "none" THEN "NoneIncrementExit"
                 ELSE ""
      r2 == delete(Raise(r1, ""), TempName)
  IN  IF Failed(r2) THEN r2 ELSE Raise(r2, pending)

\* bump whose except clause catches every exception of the try block
bump_repo_catch_all(r, source, an) ==
  LET r1 == bump_preview(r, source)
  IN  delete(Raise(r1, ""), TempName)

\* bump whose finally block deletes the branch the preview was based on
bump_repo_deletes_base(r, source, an) ==
  LET r1 == bump_preview(r, source)
      pending == IF Failed(r1) THEN r1.err
                 ELSE IF an.kind = "raise" THEN "Exception: analysis"
                 ELSE ""
      release_branches == find_release_branches(r)
      r2 == delete(Raise(r1, ""),
                   IF release_branches = << >> THEN TempName ELSE release_branches[1])
  IN  IF Failed(r2) THEN r2 ELSE Raise(r2, pending)

\* the repository after bump(repo, source, template): the finally block
\* deletes the temporary branch whatever the try block did, and an
\* exception raised by the deletion replaces the pending one
bump_repo(r, source, an) ==
  LET r1 == bump_preview(r, source)
      pending == IF Failed(r1) THEN r1.err
                 ELSE IF an.kind = "raise" THEN "Exception: analysis"
                 ELSE ""
      r2 == delete(Raise(r1, ""), TempName)
  IN  IF Failed(r2) THEN r2 ELSE Raise(r2, pending)

\* what bump returns: (next_version, changelog), (None, None), or it raises
bump(r, source, an) ==
  LET r1 == bump_repo(r, source, an)
  IN  IF Failed(r1) THEN AnRaise
      ELSE IF an.kind = "none" THEN AnNone
      ELSE an

----------------------------------------------------------------------------
(* release.py *)

\* prepare_release_branch(repo, next_release_branch)
prepare_release_branch(r, next_release_branch) ==
  LET release_branches == find_release_branches(r)
      first_commit == find_first_commit(r)
  IN  IF release_branches # << >>
      THEN IF release_branches[1] = next_release_branch
           THEN checkout(r, release_branches[1], N_HEAD)
           ELSE checkout(r, next_release_branch, release_branches[1])
      ELSE IF first_commit = 0
           THEN Raise(r, "GitCommandError: bad revision")
           ELSE checkout(r, next_release_branch, Sha(first_commit))

\* write_changelog(repo, changelog): the new text above the previous one
write_changelog(r, changelog) ==
  LET previous_changelog ==
        IF r.wt["CHANGELOG.md"].ex THEN r.wt["CHANGELOG.md"].text ELSE << >>
      next_changelog ==
        IF previous_changelog # << >> THEN changelog \o previous_changelog
        ELSE changelog
  IN  [r EXCEPT !.wt["CHANGELOG.md"] = File(next_changelog)]

ChangelogMessage(next_release_tag) ==
  Msg("Update CHANGELOG for", next_release_tag, << >>)

\* release that tags before it commits the changelog
release_tag_before_commit(r, source_branch, next_version, changelog, dry_run) ==
  LET next_release_branch == get_release_branch(next_version)
      next_release_tag == get_release_tag(next_version)
      r1 == prepare_release_branch(r, next_release_branch)
      r2 == merge(r1, source_branch, next_release_branch)
      r3 == tag(r2, next_release_tag, HeadCommit(r2))
      r4 == write_changelog(r3, changelog)
      r5 == commit(r4, {"CHANGELOG.md"}, ChangelogMessage(next_release_tag))
      r6 == push(r5, << next_release_branch, next_release_tag >>, dry_run)
  IN  IF Failed(r1) THEN r1
      ELSE IF Failed(r2) THEN r2
      ELSE IF Failed(r3) THEN r3
      ELSE IF Failed(r5) THEN r5
      ELSE r6

\* release that pushes the branch as soon as the source is merged
release_push_after_merge(r, source_branch, next_version, changelog, dry_run) ==
  LET next_release_branch == get_release_branch(next_version)
      next_release_tag == get_release_tag(next_version)
      r1 == prepare_release_branch(r, next_release_branch)
      r2 == merge(r1, source_branch, next_release_branch)
      r2p == IF dry_run \/ Failed(r2) THEN r2 ELSE push_one(r2, next_release_branch)
      r3 == write_changelog(r2p, changelog)
      r4 == commit(r3, {"CHANGELOG.md"}, ChangelogMessage(next_release_tag))
      r5 == tag(r4, next_release_tag, HeadCommit(r4))
      r6 == push(r5, << next_release_branch, next_release_tag >>, dry_run)
  IN  IF Failed(r1) THEN r1
      ELSE IF Failed(r2) THEN r2
      ELSE IF Failed(r4) THEN r4
      ELSE IF Failed(r5) THEN r5
      ELSE r6

\* release(repo, source_branch, next_version, changelog, dry_run)
release(r, source_branch, next_version, changelog, dry_run) ==
  LET next_release_branch == get_release_branch(next_version)
      next_release_tag == get_release_tag(next_version)
      r1 == prepare_release_branch(r, next_release_branch)
      r2 == merge(r1, source_branch, next_release_branch)
      r3 == write_changelog(r2, changelog)
      r4 == commit(r3, {"CHANGELOG.md"}, ChangelogMessage(next_release_tag))
      r5 == tag(r4, next_release_tag, HeadCommit(r4))
      r6 == push(r5, << next_release_branch, next_release_tag >>, dry_run)
  IN  IF Failed(r1) THEN r1
      ELSE IF Failed(r2) THEN r2
      ELSE IF Failed(r4) THEN r4
      ELSE IF Failed(r5) THEN r5
      ELSE r6

----------------------------------------------------------------------------
(* cli.py: the release action, and the environment of a run *)

VARIABLES
  repo,     \* the clone and its remote
  pc,       \* position of cli.main: idle, opened, bumped, ready, released,
            \* done, failed
  args,     \* the command line: source branch and dry-run flag
  ret,      \* what bump returned
  output,   \* the lines of the GITHUB_OUTPUT file
  pre,      \* the repository when the operation in progress started
  last      \* the operation that ran last and its arguments

vars == << repo, pc, args, ret, output, pre, last >>

\* objects that no branch, tag or HEAD reaches are invisible to every
\* operation of GitRepository; the newest of them are dropped from the graph
Reachable(r) ==
  UNION { Ancestors(r.commits, c) :
            c \in { r.heads[n] : n \in DOMAIN r.heads }
                  \cup { r.refs[n] : n \in DOMAIN r.refs }
                  \cup { r.tags[n] : n \in DOMAIN r.tags }
                  \cup { r.rtags[n] : n \in DOMAIN r.rtags }
                  \cup { HeadCommit(r) } }

RECURSIVE gc(_)
gc(r) ==
  IF Len(r.commits) \in Reachable(r) THEN r
  ELSE gc([r EXCEPT !.commits = SubSeq(@, 1, Len(@) - 1)])

\* output_release_ready that announces the tag together with ready=true
output_release_ready_with_tag(out, release_ready) ==
  IF release_ready
  THEN out \o << [key |-> "ready", value |-> << "true" >>],
                 [key |-> "tag", value |-> << >>] >>
  ELSE Append(out, [key |-> "ready", value |-> << "false" >>])

\* output_release_ready(github_output, release_ready)
output_release_ready(out, release_ready) ==
  Append(out, [key |-> "ready",
               value |-> IF release_ready THEN << "true" >> ELSE << "false" >>])

\* output_release(github_output, next_version, temp_changelog_file)
output_release(out, next_version) ==
  out \o << [key |-> "tag", value |-> get_release_tag(next_version)],
            [key |-> "changelog", value |-> << "runner_temp/uuid.md" >>] >>

\* the release goes ahead unless bump raised
release_ready_unless_raised(b) == b.kind # "raise"

\* bool(next_version and changelog) of cli.main
release_ready(b) == b.kind = "version" /\ b.changelog # << >>

\* a branch name that is no release branch but begins like one
Decoy == << "v", "1", "b" >>

\* the source branches a run may name
Sources == { N_main, N_dev }

\* the versions and changelog texts the commit analysis may return; the
\* text of a release is its tag, and the analysis may render nothing
Versions == { Version(ma, mi, 0) : ma \in 0..MaxMajor, mi \in {0, 1} }

Analyses ==
  { AnVersion(v, << get_release_tag(v) >>) : v \in Versions }
    \cup { AnVersion(Version(0, 0, 0), << >>), AnNone, AnRaise }

RootTree == [p \in Paths |-> IF p = "README.md" THEN File(<< << "0" >> >>) ELSE Absent]

NoOp == [op |-> "none", a |-> << >>, b |-> << >>]

Op(op, a, b) == [op |-> op, a |-> a, b |-> b]

\* a clone of a remote that has the default branch main with one commit
InitRepo ==
  [commits |-> << Commit(<< >>, RootTree, Msg("dev", << >>, << >>)) >>,
   heads |-> [n \in {N_main} |-> 1],
   tracking |-> {N_main},
   refs |-> [n \in {N_main} |-> 1],
   tags |-> [n \in {} |-> 0],
   rtags |-> [n \in {} |-> 0],
   head |-> Attached(N_main),
   index |-> RootTree,
   wt |-> RootTree,
   default_branch |-> << >>,
   err |-> ""]

Init ==
  /\ repo = InitRepo
  /\ pc = "idle"
  /\ args = [source |-> N_main, dry_run |-> FALSE]
  /\ ret = AnNone
  /\ output = << >>
  /\ pre = InitRepo
  /\ last = NoOp

\* the contents of README.md that developers push, in this order
DevTexts == << << "1" >>, << "2" >> >>

\* the number of commits developers have pushed
DevCount(r) ==
  Cardinality({ c \in 1..Len(r.commits) : r.commits[c].msg.kind = "dev" }) - 1

\* a developer pushes a commit that changes README.md to the remote main
DevCommit ==
  /\ pc = "idle"
  /\ Len(repo.commits) < MaxCommits
  /\ DevCount(repo) < Len(DevTexts)
  /\ LET tip == repo.refs[N_main]
         tree == [repo.commits[tip].tree EXCEPT
                    !["README.md"] = File(<< DevTexts[DevCount(repo) + 1] >>)]
     IN  repo' = [repo EXCEPT
                    !.commits = Append(@, Commit(<< tip >>, tree, Msg("dev", << >>, << >>))),
                    !.refs = Put(@, N_main, Len(repo.commits) + 1)]
  /\ last' = NoOp
  /\ UNCHANGED << pc, args, ret, output, pre >>

\* a developer pushes a branch whose name begins like a release branch
DevBranch ==
  /\ pc = "idle"
  /\ Decoy \notin DOMAIN repo.refs
  /\ repo' = [repo EXCEPT !.refs = Put(@, Decoy, repo.refs[N_main])]
  /\ last' = NoOp
  /\ UNCHANGED << pc, args, ret, output, pre >>

\* the clone a CI job starts from (tests/helper.py, Origin.clone): only
\* the default branch is local, checked out and tracking the remote's
fresh_clone(r) ==
  LET t == r.commits[r.refs[N_main]].tree
  IN  [r EXCEPT !.heads = [n \in {N_main} |-> r.refs[N_main]],
                !.tracking = {N_main},
                !.tags = r.rtags,
                !.head = Attached(N_main),
                !.index = t,
                !.wt = t,
                !.default_branch = << >>,
                !.err = ""]

\* cli.main up to the call of bump: the repository is opened and the
\* command line and the environment are read
Open ==
  /\ pc = "idle"
  /\ Len(repo.commits) + 2 <= MaxCommits
  /\ \E source \in Sources, dry_run \in BOOLEAN :
       args' = [source |-> source, dry_run |-> dry_run]
  /\ repo' = open_repository(repo)
  /\ pc' = IF Failed(repo') THEN "failed" ELSE "opened"
  /\ output' = << >>
  /\ last' = Op("open", << >>, << >>)
  /\ UNCHANGED << ret, pre >>

\* next_version, changelog = bump.bump(repo, args.source, template); last
\* records what the commit analysis reported, if bump got as far as running it
Bump ==
  /\ pc = "opened"
  /\ \E an \in Analyses :
       /\ repo' = gc(bump_repo(repo, args.source, an))
       /\ ret' = bump(repo, args.source, an)
       /\ last' = Op("bump", args.source,
                     IF Failed(bump_preview(repo, args.source))
                     THEN << "not reached" >> ELSE << an.kind >>)
  /\ pc' = IF Failed(repo') THEN "failed" ELSE "bumped"
  /\ pre' = repo
  /\ UNCHANGED << args, output >>

\* output_release_ready(github_output, release_ready)
OutputReady ==
  /\ pc = "bumped"
  /\ output' = output_release_ready(output, release_ready(ret))
  /\ pc' = IF release_ready(ret) THEN "ready" ELSE "done"
  /\ last' = Op("output_ready", << >>, << >>)
  /\ UNCHANGED << repo, args, ret, pre >>

\* release.release(repo, args.source, next_version, changelog, dry_run)
Release ==
  /\ pc = "ready"
  /\ repo' = gc(release(repo, args.source, ret.version, ret.changelog, args.dry_run))
  /\ pc' = IF Failed(repo') THEN "failed" ELSE "released"
  /\ pre' = repo
  /\ last' = Op("release", args.source, get_release_branch(ret.version))
  /\ UNCHANGED << args, ret, output >>

\* write_changelog(runner_temp, changelog); output_release(...)
OutputRelease ==
  /\ pc = "released"
  /\ output' = output_release(output, ret.version)
  /\ pc' = "done"
  /\ last' = Op("output_release", << >>, << >>)
  /\ UNCHANGED << repo, args, ret, pre >>

\* the process ends, normally or with the error as a non-zero status; the
\* job's workspace, command line and output file are gone, and the next job
\* works on a fresh clone
Exit ==
  /\ pc \in {"done", "failed"}
  /\ pc' = "idle"
  /\ repo' = gc(fresh_clone(repo))
  /\ args' = [source |-> N_main, dry_run |-> FALSE]
  /\ ret' = AnNone
  /\ output' = << >>
  /\ pre' = InitRepo
  /\ last' = NoOp

Next ==
  \/ DevCommit
  \/ DevBranch
  \/ Open
  \/ Bump
  \/ OutputReady
  \/ Release
  \/ OutputRelease
  \/ Exit

Spec == Init /\ [][Next]_vars

\* the process ends and the next job runs in the same working directory: the
\* clone is kept as the job left it
ExitKeep ==
  /\ pc \in {"done", "failed"}
  /\ pc' = "idle"
  /\ repo' = Raise(repo, "")
  /\ args' = [source |-> N_main, dry_run |-> FALSE]
  /\ ret' = AnNone
  /\ output' = << >>
  /\ pre' = InitRepo
  /\ last' = NoOp

NextReuse ==
  \/ DevCommit
  \/ Open
  \/ Bump
  \/ OutputReady
  \/ Release
  \/ OutputRelease
  \/ ExitKeep

\* the release action run again and again on one clone
SpecReuse == Init /\ [][NextReuse]_vars

----------------------------------------------------------------------------
(* The operations of GitRepository called one at a time on a clone, as the  *)
(* tests of core/repository.py do, with files of the working tree changed   *)
(* in between                                                               *)

N_v0 == << "v", "0" >>
N_chore == << "c", "h", "o", "r", "e" >>
N_x == << "x" >>
N_y == << "y" >>

\* the remote has main, ahead of the root by one commit, a release branch
\* v0 with a changelog and a branch chore that deletes README.md; the clone
\* has main and a local branch dev
ApiRepo ==
  LET t2 == [RootTree EXCEPT !["README.md"] = File(<< << "1" >> >>)]
      t3 == [RootTree EXCEPT !["CHANGELOG.md"] = File(<< get_release_tag(Version(0, 1, 0)) >>)]
  IN  [commits |-> << Commit(<< >>, RootTree, Msg("dev", << >>, << >>)),
                      Commit(<< 1 >>, t2, Msg("dev", << >>, << >>)),
                      Commit(<< 1 >>, t3, ChangelogMessage(get_release_tag(Version(0, 1, 0)))),
                      Commit(<< 1 >>, EmptyTree, Msg("dev", << >>, << >>)) >>,
       heads |-> (N_main :> 2) @@ (N_dev :> 1),
       tracking |-> {N_main},
       refs |-> (N_main :> 2) @@ (N_v0 :> 3) @@ (N_chore :> 4),
       tags |-> (get_release_tag(Version(0, 1, 0)) :> 3),
       rtags |-> (get_release_tag(Version(0, 1, 0)) :> 3),
       head |-> Attached(N_main),
       index |-> t2,
       wt |-> t2,
       default_branch |-> N_main,
       err |-> ""]

InitApi ==
  /\ repo = ApiRepo
  /\ pc = "api"
  /\ args = [source |-> N_main, dry_run |-> FALSE]
  /\ ret = AnNone
  /\ output = << >>
  /\ pre = ApiRepo
  /\ last = NoOp

\* branch names given to the operations: local, remote only, absent, HEAD
ApiNames == { N_main, N_dev, N_v0, N_chore, N_x, N_HEAD }

\* bases given to checkout: HEAD, a remote branch, a commit id, nothing valid
ApiBases == { N_HEAD, N_v0, Sha(1), N_y }

\* what a file of the working tree may be overwritten with
Junk == File(<< << "j", "u", "n", "k" >> >>)

\* a test arranges the clone with at most one call, then makes the call it
\* is about
ApiAdvance(p) == IF p = "api" THEN "arranged" ELSE "called"

\* somebody writes or removes a file of the working tree
Dirty ==
  /\ pc \in {"api", "arranged"}
  /\ \E p \in Paths, f \in { Junk, Absent } :
       /\ repo.wt[p] # f
       /\ repo' = [repo EXCEPT !.wt[p] = f, !.err = ""]
  /\ pre' = repo
  /\ last' = NoOp
  /\ UNCHANGED << pc, args, ret, output >>

\* repo.checkout(branch, on_branch)
ApiCheckout ==
  /\ pc \in {"api", "arranged"}
  /\ \E branch \in ApiNames, on_branch \in ApiBases :
       /\ repo' = gc(checkout(Raise(repo, ""), branch, on_branch))
       /\ last' = Op("checkout", branch, on_branch)
  /\ pc' = ApiAdvance(pc)
  /\ pre' = repo
  /\ UNCHANGED << args, ret, output >>

\* repo.merge(source_branch, target_branch)
ApiMerge ==
  /\ pc \in {"api", "arranged"}
  /\ Len(repo.commits) < MaxCommits
  /\ \E source_branch \in ApiNames, target_branch \in ApiNames :
       /\ repo' = gc(merge(Raise(repo, ""), source_branch, target_branch))
       /\ last' = Op("merge", source_branch, target_branch)
  /\ pc' = ApiAdvance(pc)
  /\ pre' = repo
  /\ UNCHANGED << args, ret, output >>

\* repo.delete(branch)
ApiDelete ==
  /\ pc \in {"api", "arranged"}
  /\ \E branch \in ApiNames \ { N_HEAD } :
       /\ repo' = gc(delete(Raise(repo, ""), branch))
       /\ last' = Op("delete", branch, << >>)
  /\ pc' = ApiAdvance(pc)
  /\ pre' = repo
  /\ UNCHANGED << args, ret, output >>

\* repo.find_reference(branch); the reference found is recorded
ApiFindReference ==
  /\ pc \in {"api", "arranged"}
  /\ \E branch \in ApiNames :
       /\ last' = Op("find_reference", branch, find_reference(repo, branch))
       /\ repo' = IF find_reference(repo, branch).kind = "raise"
                  THEN Raise(repo, "TypeError: HEAD is detached")
                  ELSE Raise(repo, "")
  /\ pc' = ApiAdvance(pc)
  /\ pre' = repo
  /\ UNCHANGED << args, ret, output >>

NextApi ==
  \/ Dirty
  \/ ApiCheckout
  \/ ApiMerge
  \/ ApiDelete
  \/ ApiFindReference

SpecApi == InitApi /\ [][NextApi]_vars

----------------------------------------------------------------------------
(* find_release_branches called on a clone whose remote has any set of      *)
(* branches                                                                *)

N_v1 == << "v", "1" >>
N_v2 == << "v", "2" >>
N_v10 == << "v", "1", "0" >>

\* the branches a remote may have: release branches, the default branch, a
\* development branch and a branch that only starts like a release branch
RemotePool == { N_main, N_dev, N_v0, N_v1, N_v2, N_v10, Decoy }

\* a clone of a remote whose branches are the names of S, all at the root
ListingRepo(S) == [InitRepo EXCEPT !.refs = [n \in S |-> 1]]

InitSort ==
  /\ \E S \in SUBSET RemotePool : repo = ListingRepo(S)
  /\ pc = "listing"
  /\ args = [source |-> N_main, dry_run |-> FALSE]
  /\ ret = AnNone
  /\ output = << >>
  /\ pre = InitRepo
  /\ last = NoOp

\* repo.find_release_branches()
FindReleaseBranches ==
  /\ pc = "listing"
  /\ pc' = "listed"
  /\ last' = Op("find_release_branches", find_release_branches(repo), << >>)
  /\ UNCHANGED << repo, args, ret, output, pre >>

NextSort == FindReleaseBranches

SpecSort == InitSort /\ [][NextSort]_vars

----------------------------------------------------------------------------
(* GitRepository(path) on clones of remotes with any default branch, as     *)
(* test_master_branch and test_broken_default_branch do, followed by the    *)
(* deletion of a local branch                                               *)

\* the branches a remote may have here
OpenPool == { N_main, N_master, N_dev, N_v0 }

\* a clone of a remote whose branches are the names of S, all at the second
\* of two commits; the clone has branch d of the remote and a local branch
\* x at the root commit, and h is checked out
OpenRepo(S, d, h) ==
  LET t2 == [RootTree EXCEPT !["README.md"] = File(<< << "1" >> >>)]
  IN  [commits |-> << Commit(<< >>, RootTree, Msg("dev", << >>, << >>)),
                      Commit(<< 1 >>, t2, Msg("dev", << >>, << >>)) >>,
       heads |-> (d :> 2) @@ (N_x :> 1),
       tracking |-> {d},
       refs |-> [n \in S |-> 2],
       tags |-> << >>,
       rtags |-> << >>,
       head |-> Attached(h),
       index |-> IF h = N_x THEN RootTree ELSE t2,
       wt |-> IF h = N_x THEN RootTree ELSE t2,
       default_branch |-> << >>,
       err |-> ""]

InitOpen ==
  /\ \E S \in SUBSET OpenPool : \E d \in S : \E h \in { d, N_x } :
       repo = OpenRepo(S, d, h)
  /\ pc = "closed"
  /\ args = [source |-> N_main, dry_run |-> FALSE]
  /\ ret = AnNone
  /\ output = << >>
  /\ pre = InitRepo
  /\ last = NoOp

\* repo = GitRepository(path)
OpenRepository ==
  /\ pc = "closed"
  /\ repo' = open_repository(repo)
  /\ pc' = IF Failed(repo') THEN "failed" ELSE "opened"
  /\ pre' = repo
  /\ last' = Op("init", << >>, << >>)
  /\ UNCHANGED << args, ret, output >>

\* repo.delete(branch) on the opened repository
OpenDelete ==
  /\ pc = "opened"
  /\ \E branch \in DOMAIN repo.heads :
       /\ repo' = delete(repo, branch)
       /\ last' = Op("delete", branch, << >>)
  /\ pc' = "deleted"
  /\ pre' = repo
  /\ UNCHANGED << args, ret, output >>

NextOpen ==
  \/ OpenRepository
  \/ OpenDelete

SpecOpen == InitOpen /\ [][NextOpen]_vars

----------------------------------------------------------------------------
(* Two invocations of GitRepository.merge on one clone. Each statement of   *)
(* merge reads and writes the clone on disk (HEAD, the index, the working   *)
(* tree, the branches), so the statements of the two invocations may        *)
(* interleave. Here pc, args and ret are functions of the invocation: its   *)
(* position in merge, its arguments and its local variables.                *)

Invocations == { 1, 2 }

\* the clone has main and the release branches v0 and v1, v1 one commit
\* ahead of v0, and main is checked out
RaceRepo ==
  LET t2 == [RootTree EXCEPT !["README.md"] = File(<< << "1" >> >>)]
      t3 == [RootTree EXCEPT !["CHANGELOG.md"] = File(<< get_release_tag(Version(0, 1, 0)) >>)]
      t4 == [RootTree EXCEPT !["CHANGELOG.md"] =
               File(<< get_release_tag(Version(1, 0, 0)), get_release_tag(Version(0, 1, 0)) >>)]
  IN  [commits |-> << Commit(<< >>, RootTree, Msg("dev", << >>, << >>)),
                      Commit(<< 1 >>, t2, Msg("dev", << >>, << >>)),
                      Commit(<< 1 >>, t3, ChangelogMessage(get_release_tag(Version(0, 1, 0)))),
                      Commit(<< 3 >>, t4, ChangelogMessage(get_release_tag(Version(1, 0, 0)))) >>,
       heads |-> (N_main :> 2) @@ (N_v0 :> 3) @@ (N_v1 :> 4),
       tracking |-> {N_main, N_v0, N_v1},
       refs |-> (N_main :> 2) @@ (N_v0 :> 3) @@ (N_v1 :> 4),
       tags |-> (get_release_tag(Version(0, 1, 0)) :> 3) @@ (get_release_tag(Version(1, 0, 0)) :> 4),
       rtags |-> (get_release_tag(Version(0, 1, 0)) :> 3) @@ (get_release_tag(Version(1, 0, 0)) :> 4),
       head |-> Attached(N_main),
       index |-> t2,
       wt |-> t2,
       default_branch |-> N_main,
       err |-> ""]

\* the calls an invocation may be: a branch into a release branch, with
\* names that may not resolve
RaceCalls == [source : { N_main, N_v0, N_x }, target : { N_v0, N_v1, N_x }]

\* the local variables of merge, and the exception it ended with
Locals(source_reference, target_reference, err) ==
  [source_reference |-> source_reference,
   target_reference |-> target_reference,
   err |-> err]

InitRace ==
  /\ repo = RaceRepo
  /\ pc = [i \in Invocations |-> "start"]
  /\ args \in [Invocations -> RaceCalls]
  /\ ret = [i \in Invocations |-> Locals(NoRef, NoRef, "")]
  /\ output = << >>
  /\ pre = RaceRepo
  /\ last = NoOp

\* source_reference = ...; target_reference = ...: both names are looked
\* up, and merge raises if one is not found
MergeResolve(i) ==
  /\ pc[i] = "start"
  /\ LET source_reference == find_reference(repo, args[i].source)
         target_reference == find_reference(repo, args[i].target)
         e == IF source_reference.kind \notin {"local", "remote"}
              THEN "Could not find source branch head."
              ELSE IF target_reference.kind \notin {"local", "remote"}
              THEN "Could not find target branch head."
              ELSE ""
     IN  /\ ret' = [ret EXCEPT ![i] = Locals(source_reference, target_reference, e)]
         /\ pc' = [pc EXCEPT ![i] = IF e = "" THEN "resolved" ELSE "failed"]
  /\ pre' = repo
  /\ last' = Op("resolve", i, << >>)
  /\ UNCHANGED << repo, args, output >>

\* what a statement of merge did to the clone, and where it leaves the
\* invocation
AfterStatement(i, r1, next) ==
  /\ repo' = Raise(r1, "")
  /\ ret' = [ret EXCEPT ![i].err = r1.err]
  /\ pc' = [pc EXCEPT ![i] = IF Failed(r1) THEN "failed" ELSE next]
  /\ pre' = repo

\* self._checkout_clean(target_reference)
MergeCheckout(i) ==
  /\ pc[i] = "resolved"
  /\ AfterStatement(i, checkout_clean(repo, ret[i].target_reference), "checked out")
  /\ last' = Op("checkout", i, << >>)
  /\ UNCHANGED << args, output >>

\* merge_base = self.repo.merge_base(...); self.repo.index.merge_tree(...)
MergeTree(i) ==
  /\ pc[i] = "checked out"
  /\ LET source_commit == RefCommit(repo, ret[i].source_reference)
         target_commit == RefCommit(repo, ret[i].target_reference)
     IN  AfterStatement(i, merge_tree(repo, source_commit,
                                      merge_base(repo.commits, source_commit, target_commit)),
                        "merged")
  /\ last' = Op("merge_tree", i, << >>)
  /\ UNCHANGED << args, output >>

\* merge's commit made on the target branch, whatever HEAD is
merge_commit_on_target(r, l, message) ==
  index_commit([r EXCEPT !.head = Attached(l.target_reference.name)], message,
               << RefCommit(r, l.target_reference), RefCommit(r, l.source_reference) >>)

\* self.repo.index.commit(message, parent_commits=[target_reference.commit,
\* source_reference.commit]) with the local variables l of the invocation
merge_commit(r, l, message) ==
  index_commit(r, message,
               << RefCommit(r, l.target_reference), RefCommit(r, l.source_reference) >>)

MergeCommit(i) ==
  /\ pc[i] = "merged"
  /\ AfterStatement(i, merge_commit(repo, ret[i],
                                    MergeMessage(args[i].source, args[i].target)),
                    "committed")
  /\ last' = Op("commit", i, << >>)
  /\ UNCHANGED << args, output >>

\* self._checkout_clean(self.repo.head): HEAD is no branch reference, so
\* nothing is checked out; the index and the working tree are reset
MergeRecheckout(i) ==
  /\ pc[i] = "committed"
  /\ AfterStatement(i, reset_and_clean(repo), "returned")
  /\ last' = Op("recheckout", i, << >>)
  /\ UNCHANGED << args, output >>

NextRace ==
  \E i \in Invocations :
    \/ MergeResolve(i)
    \/ MergeCheckout(i)
    \/ MergeTree(i)
    \/ MergeCommit(i)
    \/ MergeRecheckout(i)

SpecRace == InitRace /\ [][NextRace]_vars

----------------------------------------------------------------------------
(* Vocabulary of the properties *)

\* a release branch name as the specification defines it: v and digits only
IsReleaseName(n) ==
  Len(n) >= 2 /\ n[1] = "v" /\ \A i \in 2..Len(n) : IsDigit(n[i])

ReleaseNumber(n) == ToInt(Tail(n))

\* the release branches of the remote
RemoteReleaseBranches(r) == { n \in DOMAIN r.refs : IsReleaseName(n) }

\* the highest-numbered release branch of the remote
Highest(r) ==
  CHOOSE n \in RemoteReleaseBranches(r) :
    \A m \in RemoteReleaseBranches(r) : ReleaseNumber(m) <= ReleaseNumber(n)

\* the tip of the branch a name resolves to in r (local first, then remote)
TipOf(r, name) == RefCommit(r, find_reference(r, name))

\* after a successful release: the release branch, its tip (the changelog
\* commit) and the merge commit below it
RelBranch == last.b

RelTip == repo.heads[RelBranch]

RelMerge == repo.commits[RelTip].parents[1]

Released == pc = "released" /\ last.op = "release"

\* the parentless commit the default branch's remote tip descends from
RootOf(r) == CHOOSE c \in Ancestors(r.commits, r.refs[N_main]) : r.commits[c].parents = << >>

\* the text of CHANGELOG.md in the tree of commit c
ChangelogAt(r, c) == r.commits[c].tree["CHANGELOG.md"].text

----------------------------------------------------------------------------
(* C1: whatever bump did - it found a version, found no increment, or the   *)
(* preview merge or the commit analysis raised - the temporary branch is    *)
(* not a local branch once bump has returned or raised.                    *)

C1_TempBranchRemoved ==
  last.op = "bump" => TempName \notin DOMAIN repo.heads

\* bump raised in the preview merge, after the temporary branch was created
C1_Witness ==
  /\ last.op = "bump"
  /\ repo.err = "Could not find source branch head."
  /\ TempName \in DOMAIN bump_preview(pre, last.a).heads

(* C7: when the commit analysis reports that no commit warrants an          *)
(* increment, bump returns (None, None) normally and does not raise.       *)

C7_NoIncrementIsNormalReturn ==
  (last.op = "bump" /\ last.b = << "none" >>) =>
     pc = "bumped" /\ ~Failed(repo) /\ ret = AnNone

\* the analysis reported no increment on the preview merge of a release line
C7_Witness ==
  /\ last.op = "bump"
  /\ last.b = << "none" >>
  /\ find_release_branches(pre) # << >>
  /\ ret = AnNone

(* C8: when bump yields no version, the release action writes ready=false   *)
(* and performs no release step: branches, tags and commits of the clone   *)
(* and of the remote are what they were, and neither a tag= nor a          *)
(* changelog= line is written.                                             *)

C8_NoBumpShortCircuits ==
  (pc = "done" /\ ret.kind = "none") =>
     /\ output = << [key |-> "ready", value |-> << "false" >>] >>
     /\ repo.refs = pre.refs
     /\ repo.rtags = pre.rtags
     /\ repo.heads = pre.heads
     /\ repo.tags = pre.tags
     /\ repo.commits = pre.commits

\* a run that ended after bump found no increment although a release line
\* exists and main has moved on since
C8_Witness ==
  /\ pc = "done"
  /\ ret.kind = "none"
  /\ RemoteReleaseBranches(pre) # {}
  /\ ~IsAncestor(pre.commits, pre.refs[N_main], pre.refs[Highest(pre)])

(* C4: when the remote has no release branch, a release of major number N   *)
(* creates vN at the root commit of the default branch: the merge commit's  *)
(* first parent is the root, and the root and the tip of the source are in  *)
(* the history of vN.                                                       *)

C4_FirstReleaseStartsAtRoot ==
  (Released /\ RemoteReleaseBranches(pre) = {}) =>
     /\ repo.commits[RelMerge].parents[1] = RootOf(pre)
     /\ IsAncestor(repo.commits, RootOf(pre), RelTip)
     /\ IsAncestor(repo.commits, TipOf(pre, last.a), RelTip)

\* the same, for a remote on which no branch name begins like a release
\* branch name
C4_WithoutLookalike ==
  (Released /\ find_release_branches(pre) = << >>) =>
     /\ repo.commits[RelMerge].parents[1] = RootOf(pre)
     /\ IsAncestor(repo.commits, RootOf(pre), RelTip)
     /\ IsAncestor(repo.commits, TipOf(pre, last.a), RelTip)

C4_WithoutLookalike_Witness ==
  /\ Released
  /\ find_release_branches(pre) = << >>
  /\ RootOf(pre) # TipOf(pre, last.a)

(* C5: when the remote has release branches and none is named vN, a release *)
(* of major number N creates vN at the tip of the highest-numbered one: the *)
(* merge commit's first parent is that tip, and the history of that branch  *)
(* and the tip of the source are in the history of vN.                      *)

C5_NewLineFromPriorTip ==
  (Released /\ RemoteReleaseBranches(pre) # {} /\ RelBranch \notin DOMAIN pre.refs) =>
     /\ repo.commits[RelMerge].parents[1] = pre.refs[Highest(pre)]
     /\ Ancestors(pre.commits, pre.refs[Highest(pre)]) \subseteq Ancestors(repo.commits, RelTip)
     /\ IsAncestor(repo.commits, TipOf(pre, last.a), RelTip)

\* the same, for a remote on which every branch that begins like a release
\* branch name is one
C5_WithoutLookalike ==
  (/\ Released
   /\ RemoteReleaseBranches(pre) # {}
   /\ RelBranch \notin DOMAIN pre.refs
   /\ Range(find_release_branches(pre)) = RemoteReleaseBranches(pre)) =>
     /\ repo.commits[RelMerge].parents[1] = pre.refs[Highest(pre)]
     /\ Ancestors(pre.commits, pre.refs[Highest(pre)]) \subseteq Ancestors(repo.commits, RelTip)
     /\ IsAncestor(repo.commits, TipOf(pre, last.a), RelTip)

C5_WithoutLookalike_Witness ==
  /\ Released
  /\ RemoteReleaseBranches(pre) # {}
  /\ RelBranch \notin DOMAIN pre.refs
  /\ Range(find_release_branches(pre)) = RemoteReleaseBranches(pre)

(* C10: when the remote has a release branch named vN, a release of major   *)
(* number N continues it: the tip vN had is the first parent of the merge   *)
(* commit and an ancestor of the new tip of vN, whether or not vN is the    *)
(* highest-numbered release branch.                                         *)

C10_ExistingLineIsContinued ==
  (Released /\ RelBranch \in DOMAIN pre.refs) =>
     /\ repo.commits[RelMerge].parents[1] = TipOf(pre, RelBranch)
     /\ IsAncestor(repo.commits, pre.refs[RelBranch], RelTip)

\* a release on an existing release branch that is not the highest-numbered
C10_Witness ==
  /\ Released
  /\ RelBranch \in DOMAIN pre.refs
  /\ RelBranch # Highest(pre)
  /\ repo.commits[RelMerge].parents[1] = pre.refs[RelBranch]

\* the major number in a tag name v<major>.<minor>.<patch>
TagMajor(t) == ToInt(SubSeq(t, 2, DigitRunEnd(t, 2)))

\* the tags of a set ordered by the commits they are on, newest first
RECURSIVE NewestFirst(_, _)
NewestFirst(tags, S) ==
  IF S = {} THEN << >>
  ELSE LET t == CHOOSE x \in S : \A y \in S : tags[y] <= tags[x]
       IN  << t >> \o NewestFirst(tags, S \ {t})

\* every release continued the highest release line of its time or opened
\* a line with a higher number: the major numbers never went down
MajorsNeverWentDown(tags) ==
  \A s, t \in DOMAIN tags : tags[s] < tags[t] => TagMajor(s) <= TagMajor(t)

(* C6: after a sequence of successful releases, each continuing the current *)
(* release line or opening a new major line, CHANGELOG.md at the tip of the *)
(* latest release branch holds the text of every release, newest first.     *)

C6_ChangelogAccumulates ==
  (Released /\ MajorsNeverWentDown(repo.tags)) =>
     ChangelogAt(repo, RelTip) = NewestFirst(repo.tags, DOMAIN repo.tags)

\* the same, for a remote on which no branch name merely begins like a
\* release branch name
C6_WithoutLookalike ==
  (/\ Released
   /\ MajorsNeverWentDown(repo.tags)
   /\ Range(find_release_branches(repo)) = RemoteReleaseBranches(repo)) =>
     ChangelogAt(repo, RelTip) = NewestFirst(repo.tags, DOMAIN repo.tags)

\* a third release, on a second release line
C6_WithoutLookalike_Witness ==
  /\ Released
  /\ MajorsNeverWentDown(repo.tags)
  /\ Range(find_release_branches(repo)) = RemoteReleaseBranches(repo)
  /\ Cardinality(DOMAIN repo.tags) = 3
  /\ Cardinality(RemoteReleaseBranches(pre)) = 1
  /\ RelBranch \notin DOMAIN pre.refs

(* C2: a call of checkout that returns leaves no untracked file and no      *)
(* difference between the working tree, the index and the commit that is   *)
(* checked out, whatever the target and the base were and whatever was     *)
(* modified or untracked before the call.                                  *)

C2_CheckoutLeavesCleanTree ==
  (last.op = "checkout" /\ ~Failed(repo)) =>
     /\ Untracked(repo) = {}
     /\ Modified(repo) = {}
     /\ repo.index = repo.commits[HeadCommit(repo)].tree
     /\ repo.wt = repo.commits[HeadCommit(repo)].tree

\* checkout created a branch from a literal commit id and returned, with a
\* modified file and an untracked file in the working tree before the call
C2_Witness ==
  /\ last.op = "checkout"
  /\ ~Failed(repo)
  /\ Untracked(pre) # {}
  /\ Modified(pre) # {}
  /\ find_reference(pre, last.a).kind = "none"
  /\ IsSha(last.b)

\* a name other than HEAD that is neither a local nor a remote-tracking branch
Unresolvable(r, name) ==
  name # N_HEAD /\ name \notin DOMAIN r.heads /\ name \notin DOMAIN r.refs

\* a name that resolves to a local or a remote-tracking branch
Resolves(r, name) ==
  \/ name = N_HEAD /\ r.head.att
  \/ name # N_HEAD /\ (name \in DOMAIN r.heads \/ name \in DOMAIN r.refs)

(* C3: merge raises the error that names the source when the source is      *)
(* neither a local nor a remote-tracking branch, and the error that names   *)
(* the target when the source resolves and the target does not.             *)

C3_MergeNamesUnresolvableSide ==
  last.op = "merge" =>
     /\ Unresolvable(pre, last.a) => repo.err = "Could not find source branch head."
     /\ (Resolves(pre, last.a) /\ Unresolvable(pre, last.b)) =>
           repo.err = "Could not find target branch head."

\* merge of a remote-only source into a missing target raised for the target
C3_Witness ==
  /\ last.op = "merge"
  /\ last.a \in DOMAIN pre.refs \ DOMAIN pre.heads
  /\ Unresolvable(pre, last.b)
  /\ repo.err = "Could not find target branch head."

\* the elements of a list that are release branch names, in the list's order
RECURSIVE ProperOnly(_)
ProperOnly(list) ==
  IF list = << >> THEN << >>
  ELSE IF IsReleaseName(Head(list)) THEN << Head(list) >> \o ProperOnly(Tail(list))
  ELSE ProperOnly(Tail(list))

\* the remote has no branch that only starts like a release branch
OnlyReleaseNames(r) ==
  \A n \in DOMAIN r.refs : release_pattern_match(n) => IsReleaseName(n)

(* C9: find_release_branches lists every release branch of the remote once, *)
(* in descending order of the number N of vN; when the remote has release   *)
(* branches the first element is the one with the largest number; for the   *)
(* release branches v0, v2, v10, v1 the result is v10, v2, v1, v0.          *)

MergeSource == find_reference(pre, last.a)

MergeTarget == find_reference(pre, last.b)

MergeReturned == last.op = "merge" /\ ~Failed(repo)

(* C11: after a merge that returned, the tip of the target branch is a new  *)
(* commit whose parents are the tip the target had and the tip of the       *)
(* source, in this order, and the tip of the source branch has not moved.   *)

C11_MergeCommitOnTarget ==
  MergeReturned =>
     LET m == RefCommit(repo, MergeTarget)
     IN  /\ m > Len(pre.commits)
         /\ repo.commits[m].parents
              = << RefCommit(pre, MergeTarget), RefCommit(pre, MergeSource) >>
         /\ RefCommit(repo, MergeSource) = RefCommit(pre, MergeSource)

\* the same for a target that is a local branch and a source that is
\* another branch
C11_LocalTarget ==
  (MergeReturned /\ MergeTarget.kind = "local" /\ MergeSource # MergeTarget) =>
     LET m == RefCommit(repo, MergeTarget)
     IN  /\ m > Len(pre.commits)
         /\ repo.commits[m].parents
              = << RefCommit(pre, MergeTarget), RefCommit(pre, MergeSource) >>
         /\ RefCommit(repo, MergeSource) = RefCommit(pre, MergeSource)

\* a merge of a remote-only source into a local branch that is not current
C11_LocalTarget_Witness ==
  /\ MergeReturned
  /\ MergeTarget.kind = "local"
  /\ MergeSource.kind = "remote"
  /\ pre.head # Attached(MergeTarget.name)
  /\ Len(repo.commits[repo.heads[MergeTarget.name]].parents) = 2

\* what a clone holds of its own: branches, tags, HEAD, index, working tree
LocalState(r) ==
  [commits |-> r.commits, heads |-> r.heads, tracking |-> r.tracking,
   tags |-> r.tags, head |-> r.head, index |-> r.index, wt |-> r.wt]

\* the release that just ran, run from the same state with the other value
\* of dry_run
ReleaseTwin ==
  gc(release(pre, args.source, ret.version, ret.changelog, ~args.dry_run))

(* C12: a release with dry_run set leaves in the clone the same release     *)
(* branch, merge commit, changelog commit and tag as the release without    *)
(* dry_run from the same state, and leaves the branches and tags of the     *)
(* remote as they were.                                                     *)

C12_DryRunOnlySkipsPush ==
  Released =>
     /\ ~Failed(ReleaseTwin)
     /\ LocalState(ReleaseTwin) = LocalState(repo)
     /\ args.dry_run => (repo.refs = pre.refs /\ repo.rtags = pre.rtags)

\* a dry run of a release whose real run would have pushed a new release
\* branch and a new tag
C12_Witness ==
  /\ Released
  /\ args.dry_run
  /\ RelBranch \in DOMAIN repo.heads
  /\ RelBranch \notin DOMAIN repo.refs
  /\ RelBranch \in DOMAIN ReleaseTwin.refs
  /\ DOMAIN ReleaseTwin.rtags # DOMAIN repo.rtags

(* C13: after a merge that returned, also one whose source deletes a file  *)
(* the target still has, the working tree has no untracked file and does    *)
(* not differ from the index: both are the tree of the new merge commit.    *)

C13_MergeLeavesCleanTree ==
  MergeReturned =>
     /\ Untracked(repo) = {}
     /\ Modified(repo) = {}
     /\ HeadCommit(repo) > Len(pre.commits)
     /\ repo.index = repo.commits[HeadCommit(repo)].tree
     /\ repo.wt = repo.index

\* the source deleted README.md, which the target and the working tree had
C13_Witness ==
  /\ MergeReturned
  /\ pre.commits[RefCommit(pre, MergeTarget)].tree["README.md"].ex
  /\ ~pre.commits[RefCommit(pre, MergeSource)].tree["README.md"].ex
  /\ pre.wt["README.md"].ex
  /\ ~repo.commits[HeadCommit(repo)].tree["README.md"].ex

(* C14: a failure in bump other than the no-increment outcome - the commit  *)
(* analysis raised, or the preview merge raised before the analysis was     *)
(* reached - leaves bump as an error and never as the result (None, None).  *)

C14_OtherFailuresPropagate ==
  (last.op = "bump" /\ last.b \in { << "raise" >>, << "not reached" >> }) =>
     /\ pc = "failed"
     /\ Failed(repo)
     /\ ret # AnNone

\* the commit analysis raised on the preview merge of a release line
C14_Witness ==
  /\ last.op = "bump"
  /\ last.b = << "raise" >>
  /\ find_release_branches(pre) # << >>
  /\ repo.err = "Exception: analysis"
  /\ pc = "failed"

\* HEAD is on the default branch of r0: on the local branch, or detached at
\* the remote-tracking branch when there is no local one
OnDefaultBranch(r0, r) ==
  IF r0.default_branch \in DOMAIN r0.heads
  THEN r.head = Attached(r0.default_branch)
  ELSE r.head = Detached(r0.refs[r0.default_branch])

(* C15: delete(name) changes nothing when name is not a local branch.  When *)
(* it is one and delete returns, HEAD is on the default branch, which is    *)
(* not the deleted branch, and name is no longer a local branch; when       *)
(* delete raises, no branch has been deleted.                               *)

C15_DeleteFromDefaultBranch ==
  last.op = "delete" =>
     /\ last.a \notin DOMAIN pre.heads => repo = Raise(pre, "")
     /\ (last.a \in DOMAIN pre.heads /\ ~Failed(repo)) =>
           /\ OnDefaultBranch(pre, repo)
           /\ repo.head # Attached(last.a)
           /\ DOMAIN repo.heads = DOMAIN pre.heads \ { last.a }
     /\ Failed(repo) => DOMAIN repo.heads = DOMAIN pre.heads

\* the branch that was checked out when delete was called has been deleted
C15_Witness ==
  /\ last.op = "delete"
  /\ pre.head = Attached(last.a)
  /\ ~Failed(repo)
  /\ last.a \notin DOMAIN repo.heads
  /\ repo.head = Attached(N_main)

(* C16: a run of bump or of release deletes no release branch: every       *)
(* branch vN that the clone or the remote had before the run is still       *)
(* there after it.                                                          *)

C16_ReleaseBranchesAreKept ==
  last.op \in { "bump", "release" } =>
     /\ \A n \in DOMAIN pre.heads : IsReleaseName(n) => n \in DOMAIN repo.heads
     /\ \A n \in DOMAIN pre.refs : IsReleaseName(n) => n \in DOMAIN repo.refs

\* bump ran its preview in a clone that has the release branch as a local
\* branch and on the remote
C16_Witness ==
  /\ last.op = "bump"
  /\ last.b # << "not reached" >>
  /\ \E n \in DOMAIN pre.heads \cap DOMAIN pre.refs :
        /\ IsReleaseName(n)
        /\ find_release_branches(pre)[1] = n
        /\ n \in DOMAIN repo.heads

(* C17: find_release_branches returns exactly the remote branches named v   *)
(* followed by digits only: a branch whose name goes on after the digits,   *)
(* such as v1b, is not returned, and the result is empty when the remote    *)
(* has no release branch.                                                   *)

C17_ExactlyReleaseBranches ==
  last.op = "find_release_branches" =>
     /\ Range(last.a) = RemoteReleaseBranches(repo)
     /\ RemoteReleaseBranches(repo) = {} => last.a = << >>

\* what does hold: every release branch is returned, and every name returned
\* begins with v and a digit
C17_PrefixOnly ==
  last.op = "find_release_branches" =>
     /\ RemoteReleaseBranches(repo) \subseteq Range(last.a)
     /\ \A n \in Range(last.a) : n \in DOMAIN repo.refs /\ release_pattern_match(n)
     /\ (\A n \in DOMAIN repo.refs : ~release_pattern_match(n)) => last.a = << >>

\* a remote with a release branch and a look-alike: both are returned
C17_PrefixOnly_Witness ==
  /\ last.op = "find_release_branches"
  /\ DOMAIN repo.refs = { N_main, N_v0, Decoy }
  /\ last.a = << Decoy, N_v0 >>

(* C18: for a name other than HEAD, find_reference returns the local branch *)
(* of that name when there is one, also when a remote-tracking branch has   *)
(* the same name; otherwise the remote-tracking branch of that name when    *)
(* there is one; otherwise nothing, without raising.                        *)

C18_LocalThenRemoteThenNone ==
  (last.op = "find_reference" /\ last.a # N_HEAD) =>
     /\ ~Failed(repo)
     /\ last.a \in DOMAIN repo.heads => last.b = LocalRef(last.a)
     /\ (last.a \notin DOMAIN repo.heads /\ last.a \in DOMAIN repo.refs) =>
           last.b = RemoteRef(last.a)
     /\ (last.a \notin DOMAIN repo.heads /\ last.a \notin DOMAIN repo.refs) =>
           last.b = NoRef

\* a name that is a local branch and a remote-tracking branch with another
\* tip: the local branch is returned
C18_Witness ==
  /\ last.op = "find_reference"
  /\ last.a \in DOMAIN repo.heads \cap DOMAIN repo.refs
  /\ repo.heads[last.a] # repo.refs[last.a]
  /\ last.b = LocalRef(last.a)

\* the commit checkout(target, base) is to leave target at, from the state
\* before the call
CheckoutTip(r, target, base) ==
  IF target \in DOMAIN r.heads THEN r.heads[target]
  ELSE IF target \in DOMAIN r.refs THEN r.refs[target]
  ELSE IF Resolves(r, base) THEN RefCommit(r, find_reference(r, base))
  ELSE ResolveCommitish(r, base)

(* C19: after checkout(target, base) returned, the active branch is target  *)
(* and its tip is the tip of the local branch target had, else the tip of   *)
(* the remote-tracking branch, which the new local branch tracks, else the  *)
(* commit base resolves to as a branch or names literally.  checkout of     *)
(* HEAD leaves the active branch as it was.                                 *)

C19_CheckoutActivatesTarget ==
  (last.op = "checkout" /\ ~Failed(repo)) =>
     IF last.a = N_HEAD
     THEN repo.head = pre.head /\ repo.heads = pre.heads
     ELSE /\ repo.head = Attached(last.a)
          /\ repo.heads[last.a] = CheckoutTip(pre, last.a, last.b)
          /\ (last.a \notin DOMAIN pre.heads /\ last.a \in DOMAIN pre.refs) =>
                last.a \in repo.tracking
          /\ \A n \in DOMAIN pre.heads : repo.heads[n] = pre.heads[n]

\* an absent target was created from a base that is a remote-tracking branch
\* and not the commit HEAD was at
C19_Witness ==
  /\ last.op = "checkout"
  /\ ~Failed(repo)
  /\ Unresolvable(pre, last.a)
  /\ last.b \in DOMAIN pre.refs \ DOMAIN pre.heads
  /\ repo.head = Attached(last.a)
  /\ repo.heads[last.a] = pre.refs[last.b]
  /\ repo.heads[last.a] # HeadCommit(pre)

\* the tag of the release that just ran
RelTag == get_release_tag(ret.version)

(* C20: after a release of tag T that succeeded, T points at the commit     *)
(* with the message Update CHANGELOG for T, the only parent of that commit  *)
(* is the merge commit of the source into the release branch, and that      *)
(* commit is the tip of the release branch; the push sends the branch and   *)
(* the tag at that commit to the remote.                                    *)

C20_MergeCommitTagPush ==
  Released =>
     /\ RelTag \in DOMAIN repo.tags
     /\ repo.tags[RelTag] = RelTip
     /\ repo.commits[RelTip].msg = ChangelogMessage(RelTag)
     /\ Len(repo.commits[RelTip].parents) = 1
     /\ repo.commits[RelMerge].msg = MergeMessage(args.source, RelBranch)
     /\ Len(repo.commits[RelMerge].parents) = 2
     /\ repo.commits[RelMerge].parents[2] = TipOf(pre, args.source)
     /\ ~args.dry_run =>
           /\ RelBranch \in DOMAIN repo.refs /\ repo.refs[RelBranch] = RelTip
           /\ RelTag \in DOMAIN repo.rtags /\ repo.rtags[RelTag] = RelTip

\* a second release on a release line was pushed: the remote branch moved
\* from the previous release commit to the new one
C20_Witness ==
  /\ Released
  /\ ~args.dry_run
  /\ RelBranch \in DOMAIN pre.refs
  /\ pre.refs[RelBranch] # RelTip
  /\ repo.refs[RelBranch] = RelTip
  /\ repo.rtags[RelTag] = RelTip
  /\ RelTag \notin DOMAIN pre.rtags

\* source and target of the last merge changed a file in different ways
\* since their merge base
MergeConflicts ==
  LET s == pre.commits[RefCommit(pre, MergeSource)].tree
      t == pre.commits[RefCommit(pre, MergeTarget)].tree
      bases == merge_base(pre.commits, RefCommit(pre, MergeSource),
                          RefCommit(pre, MergeTarget))
  IN  /\ Cardinality(bases) = 1
      /\ \E b \in bases : \E p \in Paths :
            /\ s[p] # pre.commits[b].tree[p]
            /\ t[p] # pre.commits[b].tree[p]
            /\ s[p] # t[p]

(* C21: when source and target conflict, merge raises: no commit is         *)
(* created, no branch moves, and neither side's version of the file wins.   *)

C21_ConflictIsFatal ==
  (last.op = "merge" /\ Resolves(pre, last.a) /\ Resolves(pre, last.b)
     /\ MergeConflicts) =>
     /\ Failed(repo)
     /\ Len(repo.commits) <= Len(pre.commits)
     /\ repo.heads = pre.heads
     /\ repo.refs = pre.refs

\* main changed README.md and the source deleted it: read-tree refused
C21_Witness ==
  /\ last.op = "merge"
  /\ Resolves(pre, last.a) /\ Resolves(pre, last.b)
  /\ MergeConflicts
  /\ repo.err = "GitCommandError: read-tree"
  /\ HeadCommit(repo) = RefCommit(pre, MergeTarget)

(* C22: opening a repository chooses main when the remote has main, also   *)
(* when it has master too, master when it has master and no main, and       *)
(* fails with Default branch not found. otherwise; a later delete checks    *)
(* out that branch before it deletes.                                       *)

C22_DefaultBranch ==
  /\ last.op = "init" =>
       /\ N_main \in DOMAIN pre.refs =>
             ~Failed(repo) /\ repo.default_branch = N_main
       /\ (N_main \notin DOMAIN pre.refs /\ N_master \in DOMAIN pre.refs) =>
             ~Failed(repo) /\ repo.default_branch = N_master
       /\ (N_main \notin DOMAIN pre.refs /\ N_master \notin DOMAIN pre.refs) =>
             repo.err = "Default branch not found."
  /\ (last.op = "delete" /\ pc = "deleted" /\ ~Failed(repo)) =>
       /\ repo.default_branch = pre.default_branch
       /\ OnDefaultBranch(pre, repo)
       /\ HeadCommit(repo) = pre.refs[pre.default_branch]

\* the remote has main and master and the clone has master only: delete
\* went to the remote-tracking main before it deleted the branch that was
\* checked out
C22_Witness ==
  /\ last.op = "delete"
  /\ pc = "deleted"
  /\ ~Failed(repo)
  /\ N_master \in DOMAIN pre.heads
  /\ N_main \in DOMAIN pre.refs
  /\ pre.head = Attached(last.a)
  /\ repo.head = Detached(pre.refs[N_main])

(* C23: bump leaves the branches as they were: after it returned or raised *)
(* the clone has the same local branches at the same tips as before, and    *)
(* the branches and tags of the remote are unchanged; the preview merge     *)
(* commit was on the temporary branch only.                                 *)

C23_BumpTouchesNoBranch ==
  last.op = "bump" =>
     /\ repo.heads = pre.heads
     /\ repo.tracking = pre.tracking
     /\ repo.refs = pre.refs
     /\ repo.tags = pre.tags
     /\ repo.rtags = pre.rtags
     /\ Len(repo.commits) <= Len(pre.commits)

\* bump made its preview merge in a clone that has the release branch as a
\* local branch behind the source
C23_Witness ==
  /\ last.op = "bump"
  /\ last.b = << "version" >>
  /\ Len(bump_preview(pre, last.a).commits) > Len(pre.commits)
  /\ TempName \in DOMAIN bump_preview(pre, last.a).heads
  /\ \E n \in DOMAIN pre.heads : IsReleaseName(n)
  /\ repo.heads = pre.heads

(* C24: when the remote has no release branch, bump skips the preview: no   *)
(* temporary branch, no checkout and no merge, so the active branch, the    *)
(* index and the working tree are as they were and the analysis runs on the *)
(* current working copy.                                                    *)

C24_NoReleaseBranchNoPreview ==
  (last.op = "bump" /\ RemoteReleaseBranches(pre) = {}) =>
     /\ bump_preview(pre, last.a) = pre
     /\ last.b # << "not reached" >>
     /\ repo.head = pre.head
     /\ repo.index = pre.index
     /\ repo.wt = pre.wt
     /\ repo.heads = pre.heads
     /\ repo.commits = pre.commits

\* the same, for a remote on which no branch name begins like a release
\* branch name
C24_WithoutLookalike ==
  (last.op = "bump" /\ find_release_branches(pre) = << >>) =>
     /\ bump_preview(pre, last.a) = pre
     /\ last.b # << "not reached" >>
     /\ repo.head = pre.head
     /\ repo.index = pre.index
     /\ repo.wt = pre.wt
     /\ repo.heads = pre.heads
     /\ repo.commits = pre.commits

C24_WithoutLookalike_Witness ==
  /\ last.op = "bump"
  /\ find_release_branches(pre) = << >>
  /\ last.b = << "version" >>
  /\ Len(pre.commits) > 1
  /\ repo.head = pre.head

(* C25: the remote changes only at the push that ends release: bump leaves  *)
(* the remote's branches and tags as they were, so does a release that      *)
(* raised, and a release that returned changed at most the release branch   *)
(* and the release tag on the remote, which never has the temporary branch. *)

C25_RemoteChangesOnlyAtPush ==
  /\ TempName \notin DOMAIN repo.refs
  /\ last.op = "bump" => repo.refs = pre.refs /\ repo.rtags = pre.rtags
  /\ (last.op = "release" /\ pc = "failed") =>
        repo.refs = pre.refs /\ repo.rtags = pre.rtags
  /\ Released =>
        /\ \A n \in DOMAIN pre.refs :
              n \in DOMAIN repo.refs /\ (n # RelBranch => repo.refs[n] = pre.refs[n])
        /\ DOMAIN repo.refs \subseteq DOMAIN pre.refs \cup { RelBranch }
        /\ \A t \in DOMAIN pre.rtags :
              t \in DOMAIN repo.rtags /\ repo.rtags[t] = pre.rtags[t]
        /\ DOMAIN repo.rtags \subseteq DOMAIN pre.rtags \cup { RelTag }
        /\ args.dry_run => repo.refs = pre.refs /\ repo.rtags = pre.rtags

\* a release that merged the source and committed the changelog and then
\* raised because its tag exists already
C25_Witness ==
  /\ last.op = "release"
  /\ pc = "failed"
  /\ ~args.dry_run
  /\ repo.err = "GitCommandError: tag exists"
  /\ RelBranch \in DOMAIN repo.heads
  /\ RelBranch \in DOMAIN pre.refs
  /\ repo.heads[RelBranch] # pre.refs[RelBranch]
  /\ repo.refs = pre.refs

(* C26: two invocations of merge on one clone race. The merge commit of an  *)
(* invocation is recorded on the branch that is checked out when it         *)
(* commits, with the tip of its own target as first parent; when the other  *)
(* invocation has checked out its target in between, that is the other's    *)
(* branch, whose tip then is a commit that does not continue it, and the    *)
(* invocation's own target stays where it was. An invocation that ran while *)
(* the other had not started did exactly what merge does.                   *)

Other(i) == CHOOSE j \in Invocations : j # i

OwnTarget(i) == ret[i].target_reference.name

C26_MergeCommitFollowsHead ==
  /\ last.op = "commit" =>
       LET i == last.a
           c == Len(repo.commits)
           b == pre.head.name
       IN  /\ pre.head.att
           /\ c = Len(pre.commits) + 1
           /\ repo.heads[b] = c
           /\ repo.commits[c].parents[1] = pre.heads[OwnTarget(i)]
           /\ b # OwnTarget(i) =>
                 /\ repo.heads[OwnTarget(i)] = pre.heads[OwnTarget(i)]
                 /\ OwnTarget(Other(i)) = b
                 /\ pc[Other(i)] \notin {"start", "resolved"}
  /\ \A i \in Invocations :
       (pc[i] \in {"returned", "failed"} /\ pc[Other(i)] = "start") =>
          LET r == merge(RaceRepo, args[i].source, args[i].target)
          IN  repo = Raise(r, "") /\ ret[i].err = r.err

\* the race: an invocation committed its merge while the other's target was
\* checked out, and that branch's tip is now a commit whose first parent is
\* not its previous tip
C26_Witness ==
  /\ last.op = "commit"
  /\ pre.head.att
  /\ pre.head.name # OwnTarget(last.a)
  /\ pre.head.name = OwnTarget(Other(last.a))
  /\ repo.heads[pre.head.name] = Len(repo.commits)
  /\ repo.commits[repo.heads[pre.head.name]].parents[1] # pre.heads[pre.head.name]
  /\ repo.commits[repo.heads[pre.head.name]].parents[1] = pre.heads[OwnTarget(last.a)]

(* C27: a tag vX.Y.Z is on branch vX. A release that returned worked on the *)
(* branch v<major of the version>: that branch is checked out, it is the    *)
(* only local branch that moved, and the new tag is at its tip. On the      *)
(* remote every tag is on the first-parent line of the release branch with  *)
(* the tag's major number and is the tip of no other release branch.        *)

BranchOfTag(t) == << "v" >> \o ToDigits(TagMajor(t))

C27_TagOnItsReleaseBranch ==
  /\ Released =>
       /\ repo.head.att
       /\ IsReleaseName(repo.head.name)
       /\ ReleaseNumber(repo.head.name) = ret.version.major
       /\ TagMajor(RelTag) = ret.version.major
       /\ repo.tags[RelTag] = repo.heads[repo.head.name]
       /\ \A n \in DOMAIN repo.heads \ { repo.head.name } :
             n \in DOMAIN pre.heads /\ repo.heads[n] = pre.heads[n]
       /\ \A n \in DOMAIN repo.refs :
             (n \notin DOMAIN pre.refs \/ repo.refs[n] # pre.refs[n]) => n = repo.head.name
  /\ \A t \in DOMAIN repo.rtags :
       /\ BranchOfTag(t) \in DOMAIN repo.refs
       /\ repo.rtags[t] \in FirstParentLine(repo.commits, repo.refs[BranchOfTag(t)])
       /\ \A n \in RemoteReleaseBranches(repo) :
             ReleaseNumber(n) # TagMajor(t) => repo.refs[n] # repo.rtags[t]

\* a release of major number 1 pushed its tag while the remote has a
\* release branch v0 with a tag of its own
C27_Witness ==
  /\ Released
  /\ ~args.dry_run
  /\ ret.version.major = 1
  /\ RelTag \in DOMAIN repo.rtags
  /\ RelTag \notin DOMAIN pre.rtags
  /\ N_v0 \in DOMAIN repo.refs
  /\ \E t \in DOMAIN repo.rtags : TagMajor(t) = 0
  /\ repo.rtags[RelTag] = repo.refs[N_v1]

(* C28: the lines of the output file come in the order of cli.main. Until  *)
(* bump has returned the file is empty; the ready= line is there before     *)
(* release starts and stays the only line while release runs and when it    *)
(* raises; tag= and changelog= follow it only once release has returned,    *)
(* and then, unless the run is a dry run, the release branch and the tag    *)
(* are on the remote.                                                       *)

ReadyLine(b) == [key |-> "ready", value |-> IF b THEN << "true" >> ELSE << "false" >>]

HasLine(k) == \E i \in 1..Len(output) : output[i].key = k

C28_OutputOrder ==
  /\ pc \in {"idle", "opened", "bumped"} => output = << >>
  /\ (pc = "failed" /\ last.op \in {"open", "bump"}) => output = << >>
  /\ pc \in {"ready", "released"} => output = << ReadyLine(TRUE) >>
  /\ (pc = "failed" /\ last.op = "release") =>
        /\ Failed(repo)
        /\ output = << ReadyLine(TRUE) >>
  /\ pc = "done" =>
        \/ output = << ReadyLine(FALSE) >> /\ last.op = "output_ready"
        \/ /\ output = << ReadyLine(TRUE),
                           [key |-> "tag", value |-> RelTag],
                           [key |-> "changelog", value |-> << "runner_temp/uuid.md" >>] >>
           /\ last.op = "output_release"
  /\ (HasLine("tag") \/ HasLine("changelog")) =>
        /\ pc = "done"
        /\ ~Failed(repo)
        /\ RelTag \in DOMAIN repo.tags
        /\ get_release_branch(ret.version) \in DOMAIN repo.heads
        /\ ~args.dry_run =>
              /\ RelTag \in DOMAIN repo.rtags
              /\ repo.rtags[RelTag] = repo.tags[RelTag]
              /\ get_release_branch(ret.version) \in DOMAIN repo.refs
              /\ repo.refs[get_release_branch(ret.version)] = repo.tags[RelTag]

\* the three lines are written and the release is on the remote
C28_Witness ==
  /\ pc = "done"
  /\ Len(output) = 3
  /\ output[2].key = "tag"
  /\ ~args.dry_run
  /\ RelTag \in DOMAIN repo.rtags
  /\ RelTag \notin DOMAIN pre.rtags

(* C29: when the remote has a release branch, the merge commit of a release *)
(* has the parents of the preview merge commit that bump made on the        *)
(* temporary branch: the tip of the highest-numbered release branch and the *)
(* tip of the source branch.                                                *)

\* the clone as bump's preview merge left it, before the temporary branch
\* was deleted; the clone is the same before and after bump but for HEAD
Preview == bump_preview(pre, last.a)

PreviewParents == Preview.commits[Preview.heads[TempName]].parents

C29_ReleaseMergesWhatWasAnalysed ==
  (Released /\ RemoteReleaseBranches(pre) # {}) =>
     /\ ~Failed(Preview)
     /\ PreviewParents = << pre.refs[Highest(pre)], TipOf(pre, last.a) >>
     /\ repo.commits[RelMerge].parents = PreviewParents

\* the same, for a release that continues the branch the remote lists
\* first or opens a new one
C29_OnListedFirstOrNew ==
  (Released /\ find_release_branches(pre) # << >>
     /\ (RelBranch \notin DOMAIN pre.refs \/ RelBranch = find_release_branches(pre)[1])) =>
     /\ ~Failed(Preview)
     /\ PreviewParents = << pre.refs[find_release_branches(pre)[1]], TipOf(pre, last.a) >>
     /\ repo.commits[RelMerge].parents = PreviewParents

C29_OnListedFirstOrNew_Witness ==
  /\ Released
  /\ find_release_branches(pre) # << >>
  /\ RelBranch \notin DOMAIN pre.refs
  /\ repo.commits[RelMerge].parents = PreviewParents
  /\ pre.refs[find_release_branches(pre)[1]] # TipOf(pre, last.a)

\* a release that continues a release branch below the highest one
C29_LowerLine ==
  ~ /\ Released
    /\ RelBranch \in DOMAIN pre.refs
    /\ find_release_branches(pre) = << N_v1, N_v0 >>
    /\ RelBranch = N_v0
    /\ repo.commits[RelMerge].parents # PreviewParents

(* C30: checkout(target, base) does not move a local branch: whether it     *)
(* returned or raised, every local branch the clone had is still there at   *)
(* the same tip, tracking what it tracked, and a local branch is new only   *)
(* if it is target and the clone had no local branch of that name.          *)

C30_CheckoutKeepsLocalBranches ==
  last.op = "checkout" =>
     /\ \A n \in DOMAIN pre.heads :
           /\ n \in DOMAIN repo.heads
           /\ repo.heads[n] = pre.heads[n]
           /\ n \in repo.tracking <=> n \in pre.tracking
     /\ \A n \in DOMAIN repo.heads \ DOMAIN pre.heads : n = last.a
     /\ last.a \in DOMAIN pre.heads => DOMAIN repo.heads = DOMAIN pre.heads
     /\ repo.refs = pre.refs
     /\ Len(repo.commits) <= Len(pre.commits)

\* a local branch that is ahead of its remote-tracking branch was checked
\* out with another branch as base
C30_Witness ==
  /\ last.op = "checkout"
  /\ ~Failed(repo)
  /\ last.a \in DOMAIN pre.heads \cap DOMAIN pre.refs
  /\ pre.heads[last.a] # pre.refs[last.a]
  /\ last.b \in DOMAIN pre.refs
  /\ pre.refs[last.b] # pre.heads[last.a]
  /\ repo.head = Attached(last.a)
  /\ repo.heads[last.a] = pre.heads[last.a]

(* C31: a merge whose source or target does not resolve raises before it    *)
(* changes anything: HEAD, the local and remote branches, the tags, the     *)
(* index, the working tree and the commits are what they were before the    *)
(* call, and the error is the one that names the missing side.              *)

\* a name merge cannot turn into a reference: no branch of that name, or
\* HEAD while it is detached
NotFound(r, name) == Unresolvable(r, name) \/ (name = N_HEAD /\ ~r.head.att)

C31_UnresolvedMergeChangesNothing ==
  (last.op = "merge" /\ (NotFound(pre, last.a) \/ NotFound(pre, last.b))) =>
     /\ Failed(repo)
     /\ repo.err \in { "Could not find source branch head.",
                       "Could not find target branch head.",
                       "TypeError: HEAD is detached" }
     /\ repo.head = pre.head
     /\ repo.heads = pre.heads
     /\ repo.tracking = pre.tracking
     /\ repo.refs = pre.refs
     /\ repo.tags = pre.tags
     /\ repo.index = pre.index
     /\ repo.wt = pre.wt
     /\ repo.commits = pre.commits

\* the source was missing while the target was a local branch other than
\* the active one and the working tree had a change that a checkout of the
\* target would have discarded
C31_Witness ==
  /\ last.op = "merge"
  /\ Unresolvable(pre, last.a)
  /\ last.b \in DOMAIN pre.heads
  /\ pre.head # Attached(last.b)
  /\ pre.wt # pre.index
  /\ repo.err = "Could not find source branch head."
  /\ repo.head = pre.head
  /\ repo.wt = pre.wt

====
